---------------------------- MODULE Spec2Model ----------------------------
(***************************************************************************)
(* Model of the insurance-claim query pipeline:                            *)
(*   backend/services/query_processor.py    (QueryProcessor)               *)
(*   backend/services/document_processor.py (DocumentProcessor)            *)
(*   backend/server.py                      (startup ingestion)            *)
(*                                                                         *)
(* Representation.                                                         *)
(*  - A Python str is a sequence of one-character strings, so that regex   *)
(*    searches, substring tests, str.lower(), str.count() and str.split()  *)
(*    are computed character by character as the interpreter does.         *)
(*  - Python None is the empty tuple <<>>; a present value v is <<v>>.     *)
(*  - A Python float that need not be integral (policy duration in months, *)
(*    similarity, confidence) is an exact rational [n, d] with d > 0;      *)
(*    binary floating-point rounding is not modelled.                      *)
(*  - Amounts are integers (50000 * 0.8 = 40000.0 is exact in binary       *)
(*    floating point).                                                     *)
(***************************************************************************)
EXTENDS Integers, Sequences, FiniteSets, TLC

VARIABLES
    self_decision_rules,      \* QueryProcessor.decision_rules
    self_procedure_mappings,  \* QueryProcessor.procedure_mappings
    documents_collection,     \* the MongoDB collection db.documents, in insertion order
    scan_pos,          \* _make_decision step by step: the chunks scanned so far
    embedding_model,   \* DocumentProcessor.embedding_model
    document_chunks,   \* DocumentProcessor.document_chunks : doc_id -> document_data
    op,                \* the operation that produced the current state
    query,             \* argument of the last process_query / search_similar_chunks
    top_k,             \* argument of the last search_similar_chunks
    parsed_info,       \* input/result: ParsedQuery
    relevant_chunks,   \* input/result: matched chunks
    decision_result,   \* <<>> before _make_decision ran, <<result>> after
    confidence_score,  \* <<>> before _calculate_confidence_score ran, <<score>> after
    response,          \* <<>> or <<the value returned by the last operation>>
    raised,            \* TRUE iff the last operation raised to its caller
    fault              \* <<>> or <<the exception raised inside the last operation>>

vars == <<self_decision_rules, self_procedure_mappings, documents_collection, scan_pos,
          embedding_model, document_chunks, op, query, top_k, parsed_info,
          relevant_chunks, decision_result, confidence_score, response, raised, fault>>

---------------------------------------------------------------------------
(* Option values and rationals *)

None == <<>>
Some(v) == <<v>>
IsNone(o) == Len(o) = 0
IsSome(o) == Len(o) > 0
Val(o) == o[1]
\* the element of a one-element set; The({e(x) : x \in {v}}) is e with x bound
\* to the value of v
The(S) == CHOOSE v \in S : TRUE

Rat(n, d) == [n |-> n, d |-> d]
RInt(n) == Rat(n, 1)
RECURSIVE GCD(_, _)
GCD(a, b) == IF b = 0 THEN a ELSE GCD(b, a % b)
\* n / d in lowest terms (d > 0)
Reduced(n, d) ==
    LET g == GCD(IF n < 0 THEN -n ELSE n, d)
    IN  Rat(n \div g, d \div g)
RAdd(a, b) == Reduced(a.n * b.d + b.n * a.d, a.d * b.d)
RMul(a, b) == Reduced(a.n * b.n, a.d * b.d)
RLt(a, b) == a.n * b.d < b.n * a.d
RLe(a, b) == a.n * b.d <= b.n * a.d
REq(a, b) == a.n * b.d = b.n * a.d
RMin(a, b) == IF RLt(b, a) THEN b ELSE a
RMax(a, b) == IF RLt(a, b) THEN b ELSE a

---------------------------------------------------------------------------
(* Characters and strings *)

UpperChars == <<"A", "B", "C", "D", "E", "F", "G", "H", "I", "J", "K", "L", "M",
                "N", "O", "P", "Q", "R", "S", "T", "U", "V", "W", "X", "Y", "Z">>
LowerChars == <<"a", "b", "c", "d", "e", "f", "g", "h", "i", "j", "k", "l", "m",
                "n", "o", "p", "q", "r", "s", "t", "u", "v", "w", "x", "y", "z">>
DigitChars == <<"0", "1", "2", "3", "4", "5", "6", "7", "8", "9">>

IndexIn(c, cs) == CHOOSE i \in 1..Len(cs) : cs[i] = c
UpperSet == {UpperChars[i] : i \in 1..Len(UpperChars)}
LowerSet == {LowerChars[i] : i \in 1..Len(LowerChars)}
DigitSet == {DigitChars[i] : i \in 1..Len(DigitChars)}
ToLower == [c \in UpperSet |-> LowerChars[IndexIn(c, UpperChars)]]
ToUpper == [c \in LowerSet |-> UpperChars[IndexIn(c, LowerChars)]]
DigitValue == [c \in DigitSet |-> IndexIn(c, DigitChars) - 1]

IsUpper(c) == c \in UpperSet
IsLower(c) == c \in LowerSet
IsLetter(c) == IsUpper(c) \/ IsLower(c)
IsDigit(c) == c \in DigitSet
IsSpace(c) == c \in {" ", "\n", "\t"}
\* \w of the re module, for the characters the model uses
IsWordChar(c) == IsLetter(c) \/ IsDigit(c) \/ c = "_"

LowerChar(c) == IF IsUpper(c) THEN ToLower[c] ELSE c
UpperChar(c) == IF IsLower(c) THEN ToUpper[c] ELSE c
\* str.lower()
Lower(s) == [i \in 1..Len(s) |-> LowerChar(s[i])]
\* str.title(), for the one-word strings it is applied to
Title(s) == [i \in 1..Len(s) |-> IF i = 1 THEN UpperChar(s[i]) ELSE LowerChar(s[i])]

\* w occurs in s at position i
At(s, i, w) == i + Len(w) - 1 <= Len(s) /\ \A k \in 1..Len(w) : s[i + k - 1] = w[k]
\* w in s
Contains(s, w) == \E i \in 1..(Len(s) - Len(w) + 1) : At(s, i, w)

Min(S) == CHOOSE x \in S : \A y \in S : x <= y
Max(S) == CHOOSE x \in S : \A y \in S : y <= x

\* int(s) for a string of decimal digits
RECURSIVE ToInt(_)
ToInt(s) ==
    IF Len(s) = 0 THEN 0
    ELSE 10 * ToInt(SubSeq(s, 1, Len(s) - 1)) + DigitValue[s[Len(s)]]

S_knee == <<"k", "n", "e", "e">>
S_heart == <<"h", "e", "a", "r", "t">>
S_surgery == <<"s", "u", "r", "g", "e", "r", "y">>
S_cancer == <<"c", "a", "n", "c", "e", "r">>
S_dental == <<"d", "e", "n", "t", "a", "l">>
S_cosmetic == <<"c", "o", "s", "m", "e", "t", "i", "c">>
S_operation == <<"o", "p", "e", "r", "a", "t", "i", "o", "n">>
S_procedure == <<"p", "r", "o", "c", "e", "d", "u", "r", "e">>
S_treatment == <<"t", "r", "e", "a", "t", "m", "e", "n", "t">>
S_year == <<"y", "e", "a", "r">>
S_yr == <<"y", "r">>
S_y == <<"y">>
S_ear == <<"e", "a", "r">>
S_old == <<"o", "l", "d">>
S_policy == <<"p", "o", "l", "i", "c", "y">>
S_month == <<"m", "o", "n", "t", "h">>
S_mon == <<"m", "o", "n">>
S_day == <<"d", "a", "y">>
S_d == <<"d">>
S_m == <<"m">>
S_f == <<"f">>
S_male == <<"m", "a", "l", "e">>
S_female == <<"f", "e", "m", "a", "l", "e">>
S_in_ == <<"i", "n", " ">>
S_exclusion == <<"e", "x", "c", "l", "u", "s", "i", "o", "n">>
S_not_covered == <<"n", "o", "t", " ", "c", "o", "v", "e", "r", "e", "d">>
S_coverage == <<"c", "o", "v", "e", "r", "a", "g", "e">>
S_rs == <<"r", "s">>

---------------------------------------------------------------------------
(* Regular expressions.  A pattern is a sequence of items:                 *)
(*    [t |-> "digits"]              \d+                                     *)
(*    [t |-> "letters"]             [A-Za-z]+                               *)
(*    [t |-> "alt", alts |-> W]     one of the literal words W              *)
(*    [t |-> "opt", alts |-> W]     (one of the literal words W)?           *)
(* re.IGNORECASE is modelled by matching the lower-case pattern against    *)
(* the lower-cased text.                                                   *)

Digits == [t |-> "digits"]
Letters == [t |-> "letters"]
Alt(W) == [t |-> "alt", alts |-> W]
Opt(W) == [t |-> "opt", alts |-> W]
\* [- ]?
OptSep == Opt({<<"-">>, <<" ">>})

\* the positions e > i such that s[i..e-1] is a non-empty run of characters in class
InClass(c, digits) == IF digits THEN IsDigit(c) ELSE IsLetter(c)
RunEnds(s, i, digits) ==
    IF i <= Len(s) /\ InClass(s[i], digits)
    THEN {e \in (i + 1)..(Len(s) + 1) : \A j \in i..(e - 1) : InClass(s[j], digits)}
    ELSE {}

\* the positions at which a match of items k.. of pat that starts at i can end
RECURSIVE Ends(_, _, _, _)
Ends(pat, k, s, i) ==
    IF k > Len(pat) THEN {i}
    ELSE LET it == pat[k] IN
         CASE it.t = "digits" ->
                UNION {Ends(pat, k + 1, s, e) : e \in RunEnds(s, i, TRUE)}
           [] it.t = "letters" ->
                UNION {Ends(pat, k + 1, s, e) : e \in RunEnds(s, i, FALSE)}
           [] it.t = "alt" ->
                UNION {Ends(pat, k + 1, s, i + Len(w)) : w \in {w \in it.alts : At(s, i, w)}}
           [] it.t = "opt" ->
                Ends(pat, k + 1, s, i)
                \cup UNION {Ends(pat, k + 1, s, i + Len(w)) : w \in {w \in it.alts : At(s, i, w)}}

\* re.search(pat, s, re.IGNORECASE): None, or Some(the leftmost start of a match)
re_search(pat, s) ==
    LET low == Lower(s)
        starts == {i \in 1..Len(s) : Ends(pat, 1, low, i) # {}}
    IN  IF starts = {} THEN None ELSE Some(Min(starts))

\* match.group(1) of a pattern whose first item is the greedy group (\d+) or
\* ([A-Za-z]+) at offset off of the match: the longest run after which the rest matches
group1(pat, k, s, i) ==
    LET low == Lower(s)
        es == {e \in RunEnds(low, i, pat[k].t = "digits") : Ends(pat, k + 1, low, e) # {}}
    IN  SubSeq(s, i, Max(es) - 1)

---------------------------------------------------------------------------
(* QueryProcessor.__init__: decision rules and procedure table *)

min_policy_duration_months == 6
max_age_standard == 60
max_age_premium == 75
base_coverage_amount == 50000
\* age_penalty_factor = 0.8
age_penalty_factor == Rat(8, 10)

decision_rules ==
    [min_policy_duration_months |-> min_policy_duration_months,
     max_age_standard |-> max_age_standard,
     max_age_premium |-> max_age_premium,
     base_coverage_amount |-> base_coverage_amount,
     age_penalty_factor |-> age_penalty_factor]

\* list(self.procedure_mappings.keys()): a dict keeps its insertion order
procedure_keywords == <<S_knee, S_heart, S_surgery, S_cancer, S_dental, S_cosmetic>>

procedure_mappings ==
    [p \in {procedure_keywords[i] : i \in 1..Len(procedure_keywords)} |->
        CASE p = S_knee -> [covered |-> TRUE, category |-> "orthopedic", base_amount |-> 75000]
          [] p = S_heart -> [covered |-> TRUE, category |-> "cardiac", base_amount |-> 200000]
          [] p = S_surgery -> [covered |-> TRUE, category |-> "general", base_amount |-> 50000]
          [] p = S_cancer -> [covered |-> TRUE, category |-> "oncology", base_amount |-> 500000]
          [] p = S_dental -> [covered |-> FALSE, category |-> "dental", base_amount |-> 0]
          [] p = S_cosmetic -> [covered |-> FALSE, category |-> "cosmetic", base_amount |-> 0]]

\* QueryProcessor.__init__ (lines 20-37): the two tables become fields of the object
QueryProcessorInit ==
    /\ self_decision_rules = decision_rules
    /\ self_procedure_mappings = procedure_mappings

---------------------------------------------------------------------------
(* QueryProcessor._parse_query_details *)

\* r'(\d+)[- ]?(?:year|yr|y)(?:ear)?[- ]?old', r'(\d+)[- ]?(?:M|F|male|female)', r'(\d+)[yY]'
age_patterns ==
    << <<Digits, OptSep, Alt({S_year, S_yr, S_y}), Opt({S_ear}), OptSep, Alt({S_old})>>,
       <<Digits, OptSep, Alt({S_m, S_f, S_male, S_female})>>,
       <<Digits, Alt({S_y})>> >>

\* r'(M|F|male|female)': the alternatives in the order the regex tries them
gender_alternatives == <<S_m, S_f, S_male, S_female>>
gender_pattern == <<Alt({gender_alternatives[i] : i \in 1..Len(gender_alternatives)})>>

general_terms == <<S_surgery, S_operation, S_procedure, S_treatment>>

\* r'in ([A-Za-z]+)'
location_pattern == <<Alt({S_in_}), Letters>>

\* r'(\d+)[- ]?(?:month|mon)[- ]?(?:old|policy)', ...(?:year|yr)..., ...(?:day|d)...
duration_patterns ==
    << <<Digits, OptSep, Alt({S_month, S_mon}), OptSep, Alt({S_old, S_policy})>>,
       <<Digits, OptSep, Alt({S_year, S_yr}), OptSep, Alt({S_old, S_policy})>>,
       <<Digits, OptSep, Alt({S_day, S_d}), OptSep, Alt({S_old, S_policy})>> >>
\* the unit the if/elif chain on the pattern text selects for each pattern
duration_units == <<"months", "years", "days">>

\* for pattern in patterns: m = re.search(pattern, query, re.IGNORECASE); if m: ...; break
\* the index of the first pattern that matches, 0 when none does
FirstMatching(patterns, q) ==
    LET hits == {k \in 1..Len(patterns) : IsSome(re_search(patterns[k], q))}
    IN  IF hits = {} THEN 0 ELSE Min(hits)

\* int(match.group(1)) of the first matching pattern k
MatchedNumber(patterns, k, q) ==
    ToInt(group1(patterns[k], 1, q, Val(re_search(patterns[k], q))))

\* parse_age with the field initialised to 0 instead of None
parse_age_default_zero(q) ==
    LET k == FirstMatching(age_patterns, q)
    IN  IF k = 0 THEN Some(0) ELSE Some(MatchedNumber(age_patterns, k, q))

parse_age(q) ==
    LET k == FirstMatching(age_patterns, q)
    IN  IF k = 0 THEN None ELSE Some(MatchedNumber(age_patterns, k, q))

\* gender_match.group(1).lower(): the first alternative, in regex order, that
\* matches at the leftmost match position
parse_gender(q) ==
    LET m == re_search(gender_pattern, q)
    IN  IF IsNone(m) THEN None
        ELSE LET k == Min({j \in 1..Len(gender_alternatives) :
                               At(Lower(q), Val(m), gender_alternatives[j])})
                 gender == gender_alternatives[k]
             IN  Some(IF gender \in {S_m, S_male} THEN "male" ELSE "female")

\* the first element of words that is a substring of query.lower(), 0 when none is
FirstContained(words, q) ==
    LET hits == {k \in 1..Len(words) : Contains(Lower(q), Lower(words[k]))}
    IN  IF hits = {} THEN 0 ELSE Min(hits)

\* procedure extraction trying the general terms before the table keys
parse_procedure_general_terms_first(q) ==
    LET k == FirstContained(procedure_keywords, q)
    IN  IF FirstContained(general_terms, q) # 0 THEN Some(S_surgery)
        ELSE IF k # 0 THEN Some(procedure_keywords[k])
        ELSE None

parse_procedure(q) ==
    LET k == FirstContained(procedure_keywords, q)
    IN  IF k # 0 THEN Some(procedure_keywords[k])
        ELSE IF FirstContained(general_terms, q) # 0 THEN Some(S_surgery)
        ELSE None

parse_location(q) ==
    LET m == re_search(location_pattern, q)
    IN  IF IsNone(m) THEN None
        ELSE Some(Title(group1(location_pattern, 2, q, Val(m) + Len(S_in_))))

\* policy_duration in months: int(group 1), * 12 for years, / 30 for days
parse_policy_duration(q) ==
    LET k == FirstMatching(duration_patterns, q)
        n == MatchedNumber(duration_patterns, k, q)
    IN  IF k = 0 THEN None
        ELSE CASE duration_units[k] = "months" -> Some(RInt(n))
               [] duration_units[k] = "years" -> Some(RInt(n * 12))
               [] duration_units[k] = "days" -> Some(Rat(n, 30))

parse_policy_duration_unit(q) ==
    LET k == FirstMatching(duration_patterns, q)
    IN  IF k = 0 THEN None ELSE Some(duration_units[k])

_parse_query_details(q) ==
    [age |-> parse_age(q),
     gender |-> parse_gender(q),
     procedure |-> parse_procedure(q),
     location |-> parse_location(q),
     policy_duration |-> parse_policy_duration(q),
     policy_duration_unit |-> parse_policy_duration_unit(q),
     raw_query |-> q]

---------------------------------------------------------------------------
(* QueryProcessor._make_decision *)

\* Python truthiness of an optional number / rational / string
TruthyInt(o) == IsSome(o) /\ Val(o) # 0
TruthyRat(o) == IsSome(o) /\ Val(o).n # 0
TruthyStr(o) == IsSome(o) /\ Len(Val(o)) > 0

\* the first position q >= p of s that holds no whitespace (\s*)
RECURSIVE SkipSpaces(_, _)
SkipSpaces(s, p) ==
    IF p <= Len(s) /\ IsSpace(s[p]) THEN SkipSpaces(s, p + 1) ELSE p

\* the position after the longest match of \d+(?:,\d+)* that starts at q (a digit)
RECURSIVE NumberEnd(_, _)
NumberEnd(s, q) ==
    LET e == Max(RunEnds(s, q, TRUE))
    IN  IF e + 1 <= Len(s) /\ s[e] = "," /\ IsDigit(s[e + 1])
        THEN NumberEnd(s, e + 1)
        ELSE e

\* r'coverage[^:]*:\s*(?:rs\.?\s*)?(\d+(?:,\d+)*)' tried at position i of text:
\* <<>> when it does not match there, else <<start of group 1>>.
\* [^:]* cannot cross a colon, so the colon matched is the first one after
\* "coverage"; \s*, (?:rs\.?\s*)? and \.? are greedy and giving any of them up
\* leaves a character that is not a digit, so the match is deterministic.
coverage_match_at(text, i) ==
    IF ~At(text, i, S_coverage) THEN None
    ELSE LET colons == {j \in (i + Len(S_coverage))..Len(text) : text[j] = ":"}
         IN  IF colons = {} THEN None
             ELSE LET p == SkipSpaces(text, Min(colons) + 1)
                      afterRs == p + Len(S_rs)
                      afterDot == IF afterRs <= Len(text) /\ text[afterRs] = "."
                                  THEN afterRs + 1 ELSE afterRs
                      q == IF At(text, p, S_rs) THEN SkipSpaces(text, afterDot) ELSE p
                 IN  IF q <= Len(text) /\ IsDigit(text[q]) THEN Some(q) ELSE None

\* re.search of the coverage pattern, then int(group(1).replace(',', '')):
\* None, or Some(coverage_amount)
coverage_amount_of(text) ==
    LET starts == {i \in 1..Len(text) : IsSome(coverage_match_at(text, i))}
    IN  IF starts = {} THEN None
        ELSE LET q == Val(coverage_match_at(text, Min(starts)))
                 NotComma(c) == c # ","
             IN  Some(ToInt(SelectSeq(SubSeq(text, q, NumberEnd(text, q) - 1), NotComma)))

\* the loop body taking any coverage amount that differs from the current one
scan_chunk_step_override_any_amount(st, procedure, chunk) ==
    LET chunk_text == Lower(chunk.chunk)
        excluded == /\ (Contains(chunk_text, S_exclusion) \/ Contains(chunk_text, S_not_covered))
                    /\ TruthyStr(procedure)
                    /\ Contains(chunk_text, Lower(Val(procedure)))
        coverage_match == coverage_amount_of(chunk_text)
    IN  IF excluded
        THEN [st |-> [decision |-> "rejected", amount |-> 0,
                      factors |-> Append(st.factors,
                          [kind |-> "Procedure found in exclusions",
                           document |-> chunk.document])],
              break |-> TRUE]
        ELSE IF /\ IsSome(coverage_match)
                /\ st.decision = "approved"
                /\ Val(coverage_match) # st.amount
        THEN [st |-> [decision |-> st.decision, amount |-> Val(coverage_match),
                      factors |-> Append(st.factors,
                          [kind |-> "Coverage amount updated based on policy document",
                           document |-> chunk.document])],
              break |-> FALSE]
        ELSE [st |-> st, break |-> FALSE]

\* the loop body without the break after an exclusion
scan_chunk_step_without_break(st, procedure, chunk) ==
    LET chunk_text == Lower(chunk.chunk)
        excluded == /\ (Contains(chunk_text, S_exclusion) \/ Contains(chunk_text, S_not_covered))
                    /\ TruthyStr(procedure)
                    /\ Contains(chunk_text, Lower(Val(procedure)))
        coverage_match == coverage_amount_of(chunk_text)
    IN  IF excluded
        THEN [st |-> [decision |-> "rejected", amount |-> 0,
                      factors |-> Append(st.factors,
                          [kind |-> "Procedure found in exclusions",
                           document |-> chunk.document])],
              break |-> FALSE]
        ELSE IF /\ IsSome(coverage_match)
                /\ st.decision = "approved"
                /\ Val(coverage_match) > st.amount
        THEN [st |-> [decision |-> st.decision, amount |-> Val(coverage_match),
                      factors |-> Append(st.factors,
                          [kind |-> "Coverage amount updated based on policy document",
                           document |-> chunk.document])],
              break |-> FALSE]
        ELSE [st |-> st, break |-> FALSE]

\* the loop body with the coverage override not asking for decision == "approved"
scan_chunk_step_override_when_rejected(st, procedure, chunk) ==
    LET chunk_text == Lower(chunk.chunk)
        excluded == /\ (Contains(chunk_text, S_exclusion) \/ Contains(chunk_text, S_not_covered))
                    /\ TruthyStr(procedure)
                    /\ Contains(chunk_text, Lower(Val(procedure)))
        coverage_match == coverage_amount_of(chunk_text)
    IN  IF excluded
        THEN [st |-> [decision |-> "rejected", amount |-> 0,
                      factors |-> Append(st.factors,
                          [kind |-> "Procedure found in exclusions",
                           document |-> chunk.document])],
              break |-> TRUE]
        ELSE IF /\ IsSome(coverage_match)
                /\ Val(coverage_match) > st.amount
        THEN [st |-> [decision |-> st.decision, amount |-> Val(coverage_match),
                      factors |-> Append(st.factors,
                          [kind |-> "Coverage amount updated based on policy document",
                           document |-> chunk.document])],
              break |-> FALSE]
        ELSE [st |-> st, break |-> FALSE]

\* one pass of the body of the for loop over relevant_chunks (lines 204-221)
\* on the decision state st = [decision, amount, factors]: the state after the
\* chunk, and whether the loop was left by break
scan_chunk_step(st, procedure, chunk) ==
    LET chunk_text == Lower(chunk.chunk)
        excluded == /\ (Contains(chunk_text, S_exclusion) \/ Contains(chunk_text, S_not_covered))
                    /\ TruthyStr(procedure)
                    /\ Contains(chunk_text, Lower(Val(procedure)))
        coverage_match == coverage_amount_of(chunk_text)
    IN  IF excluded
        THEN [st |-> [decision |-> "rejected", amount |-> 0,
                      factors |-> Append(st.factors,
                          [kind |-> "Procedure found in exclusions",
                           document |-> chunk.document])],
              break |-> TRUE]
        ELSE IF /\ IsSome(coverage_match)
                /\ st.decision = "approved"
                /\ Val(coverage_match) > st.amount
        THEN [st |-> [decision |-> st.decision, amount |-> Val(coverage_match),
                      factors |-> Append(st.factors,
                          [kind |-> "Coverage amount updated based on policy document",
                           document |-> chunk.document])],
              break |-> FALSE]
        ELSE [st |-> st, break |-> FALSE]

\* the for loop over relevant_chunks (lines 204-221), from chunk i on
RECURSIVE scan_chunks(_, _, _, _)
scan_chunks(st, procedure, chunks, i) ==
    IF i > Len(chunks) THEN st
    ELSE The({IF r.break THEN r.st ELSE scan_chunks(r.st, procedure, chunks, i + 1) :
                 r \in {scan_chunk_step(st, procedure, chunks[i])}})

\* lines 172-177: the policy duration rule
duration_rule(st, pinfo) ==
    LET policy_duration == pinfo.policy_duration
    IN  IF /\ TruthyRat(policy_duration)
           /\ RLt(Val(policy_duration), RInt(self_decision_rules.min_policy_duration_months))
        THEN [decision |-> "rejected", amount |-> 0,
              factors |-> Append(st.factors,
                  [kind |-> "Policy duration is less than minimum required",
                   policy_duration |-> Val(policy_duration),
                   minimum_months |-> self_decision_rules.min_policy_duration_months])]
        ELSE st

\* the age rule without the test decision == "approved"
age_rule_after_rejection(st, pinfo) ==
    LET age == pinfo.age
    IN  IF TruthyInt(age)
        THEN IF Val(age) > self_decision_rules.max_age_premium
             THEN [decision |-> "rejected", amount |-> 0,
                   factors |-> Append(st.factors,
                       [kind |-> "Age exceeds maximum coverage age", age |-> Val(age),
                        maximum_age |-> self_decision_rules.max_age_premium])]
             ELSE IF Val(age) > self_decision_rules.max_age_standard
             THEN [decision |-> st.decision,
                   amount |-> (st.amount * self_decision_rules.age_penalty_factor.n)
                                  \div self_decision_rules.age_penalty_factor.d,
                   factors |-> Append(st.factors,
                       [kind |-> "Age penalty applied", age |-> Val(age)])]
             ELSE st
        ELSE st

\* the age rule with the penalty comparison reversed (age <= max_age_standard)
age_rule_penalty_reversed(st, pinfo) ==
    LET age == pinfo.age
    IN  IF TruthyInt(age) /\ st.decision = "approved"
        THEN IF Val(age) > self_decision_rules.max_age_premium
             THEN [decision |-> "rejected", amount |-> 0,
                   factors |-> Append(st.factors,
                       [kind |-> "Age exceeds maximum coverage age", age |-> Val(age),
                        maximum_age |-> self_decision_rules.max_age_premium])]
             ELSE IF Val(age) <= self_decision_rules.max_age_standard
             THEN [decision |-> st.decision,
                   amount |-> (st.amount * self_decision_rules.age_penalty_factor.n)
                                  \div self_decision_rules.age_penalty_factor.d,
                   factors |-> Append(st.factors,
                       [kind |-> "Age penalty applied", age |-> Val(age)])]
             ELSE st
        ELSE st

\* lines 179-188: the age rule
age_rule(st, pinfo) ==
    LET age == pinfo.age
    IN  IF TruthyInt(age) /\ st.decision = "approved"
        THEN IF Val(age) > self_decision_rules.max_age_premium
             THEN [decision |-> "rejected", amount |-> 0,
                   factors |-> Append(st.factors,
                       [kind |-> "Age exceeds maximum coverage age", age |-> Val(age),
                        maximum_age |-> self_decision_rules.max_age_premium])]
             ELSE IF Val(age) > self_decision_rules.max_age_standard
             THEN [decision |-> st.decision,
                   amount |-> (st.amount * self_decision_rules.age_penalty_factor.n)
                                  \div self_decision_rules.age_penalty_factor.d,
                   factors |-> Append(st.factors,
                       [kind |-> "Age penalty applied", age |-> Val(age)])]
             ELSE st
        ELSE st

\* the procedure rule taking the table's amount without looking at "covered"
procedure_rule_ignoring_covered(st, pinfo) ==
    LET procedure == pinfo.procedure
    IN  IF /\ TruthyStr(procedure)
           /\ st.decision = "approved"
           /\ Val(procedure) \in DOMAIN self_procedure_mappings
        THEN LET procedure_info == self_procedure_mappings[Val(procedure)]
             IN  [decision |-> st.decision, amount |-> procedure_info.base_amount,
                  factors |-> Append(st.factors,
                      [kind |-> "surgery is covered under category",
                       procedure |-> Title(Val(procedure)),
                       category |-> procedure_info.category])]
        ELSE st

\* the procedure rule carrying the age penalty over to the procedure's amount
procedure_rule_keeping_penalty(st, pinfo) ==
    LET procedure == pinfo.procedure
    IN  IF /\ TruthyStr(procedure)
           /\ st.decision = "approved"
           /\ Val(procedure) \in DOMAIN self_procedure_mappings
        THEN LET procedure_info == self_procedure_mappings[Val(procedure)]
             IN  IF procedure_info.covered
                 THEN [decision |-> st.decision,
                       amount |-> procedure_info.base_amount
                                      - (self_decision_rules.base_coverage_amount - st.amount),
                       factors |-> Append(st.factors,
                           [kind |-> "surgery is covered under category",
                            procedure |-> Title(Val(procedure)),
                            category |-> procedure_info.category])]
                 ELSE [decision |-> "rejected", amount |-> 0,
                       factors |-> Append(st.factors,
                           [kind |-> "is not covered under policy",
                            procedure |-> Title(Val(procedure))])]
        ELSE st

\* lines 190-201: the procedure rule
procedure_rule(st, pinfo) ==
    LET procedure == pinfo.procedure
    IN  IF /\ TruthyStr(procedure)
           /\ st.decision = "approved"
           /\ Val(procedure) \in DOMAIN self_procedure_mappings
        THEN LET procedure_info == self_procedure_mappings[Val(procedure)]
             IN  IF procedure_info.covered
                 THEN [decision |-> st.decision, amount |-> procedure_info.base_amount,
                       factors |-> Append(st.factors,
                           [kind |-> "surgery is covered under category",
                            procedure |-> Title(Val(procedure)),
                            category |-> procedure_info.category])]
                 ELSE [decision |-> "rejected", amount |-> 0,
                       factors |-> Append(st.factors,
                           [kind |-> "is not covered under policy",
                            procedure |-> Title(Val(procedure))])]
        ELSE st

\* lines 168-170: the decision state before the first rule
decision_start ==
    [decision |-> "approved",
     amount |-> self_decision_rules.base_coverage_amount,
     factors |-> <<>>]

_make_decision(pinfo, chunks) ==
    scan_chunks(procedure_rule(age_rule(duration_rule(decision_start, pinfo), pinfo), pinfo),
                pinfo.procedure, chunks, 1)

---------------------------------------------------------------------------
(* QueryProcessor._calculate_confidence_score *)

RECURSIVE sum_similarity(_, _)
sum_similarity(chunks, i) ==
    IF i > Len(chunks) THEN RInt(0)
    ELSE RAdd(chunks[i].similarity, sum_similarity(chunks, i + 1))

required_fields == <<"age", "procedure", "policy_duration">>

\* Factor 1: info_completeness * 0.3
completeness_factor(pinfo) ==
    LET completed_fields ==
            Cardinality({i \in 1..Len(required_fields) : IsSome(pinfo[required_fields[i]])})
    IN  RMul(Rat(completed_fields, Len(required_fields)), Rat(3, 10))

\* Factor 2: avg_similarity * 0.4, or 0.0 without chunks
relevance_factor(chunks) ==
    IF Len(chunks) > 0
    THEN RMul(RMul(sum_similarity(chunks, 1), Rat(1, Len(chunks))), Rat(4, 10))
    ELSE RInt(0)

\* Factor 3 with the 0.1 of the else branch weighted by 0.3 like the clarity
clarity_factor_weighted(result) ==
    IF Len(result.factors) > 0
    THEN RMul(RMin(Rat(Len(result.factors), 3), RInt(1)), Rat(3, 10))
    ELSE RMul(Rat(1, 10), Rat(3, 10))

\* Factor 3: min(len(factors) / 3, 1.0) * 0.3, or 0.1 without factors
clarity_factor(result) ==
    IF Len(result.factors) > 0
    THEN RMul(RMin(Rat(Len(result.factors), 3), RInt(1)), Rat(3, 10))
    ELSE Rat(1, 10)

\* the sum returned as it is, without the final clamp
unclamped(x) == x

\* min(max(confidence_score, 0.0), 1.0)
clamp01(x) == RMin(RMax(x, RInt(0)), RInt(1))

_calculate_confidence_score(pinfo, chunks, result) ==
    clamp01(RAdd(RAdd(completeness_factor(pinfo), relevance_factor(chunks)),
                 clarity_factor(result)))

---------------------------------------------------------------------------
(* QueryProcessor._generate_justification: the list justification_parts,   *)
(* which the code joins with "\n".  A line is its f-string template and    *)
(* the values formatted into it.                                           *)

Line(text, args) == [text |-> text, args |-> args]

factor_lines(factors) ==
    IF Len(factors) > 0
    THEN <<Line("Decision Factors:", <<>>)>>
         \o [i \in 1..Len(factors) |-> Line("{i}. {factor}", <<i, factors[i]>>)]
    ELSE <<>>

info_lines(pinfo) ==
    <<Line("Extracted Information:", <<>>)>>
    \o (IF TruthyInt(pinfo.age)
        THEN <<Line("Age: {age} years", pinfo.age)>> ELSE <<>>)
    \o (IF IsSome(pinfo.gender)
        THEN <<Line("Gender: {gender.title()}", pinfo.gender)>> ELSE <<>>)
    \o (IF TruthyStr(pinfo.procedure)
        THEN <<Line("Procedure: {procedure.title()}", <<Title(Val(pinfo.procedure))>>)>> ELSE <<>>)
    \o (IF TruthyStr(pinfo.location)
        THEN <<Line("Location: {location}", pinfo.location)>> ELSE <<>>)
    \o (IF TruthyRat(pinfo.policy_duration)
        THEN <<Line("Policy Duration: {policy_duration} {unit}",
                    <<Val(pinfo.policy_duration), Val(pinfo.policy_duration_unit)>>)>>
        ELSE <<>>)

reference_lines(chunks) ==
    IF Len(chunks) > 0
    THEN <<Line("Referenced Documents ({len}):", <<Len(chunks)>>)>>
         \o [i \in 1..(IF Len(chunks) < 3 THEN Len(chunks) ELSE 3) |->
                Line("{i}. {document} (relevance: {similarity:.2f})",
                     <<i, chunks[i].document, chunks[i].similarity>>)]
    ELSE <<>>

_generate_justification(pinfo, chunks, result) ==
    <<(CASE result.decision = "approved" ->
              Line("Claim APPROVED for amount: Rs. {amount:,.2f}", <<result.amount>>)
         [] result.decision = "rejected" -> Line("Claim REJECTED", <<>>)
         [] OTHER -> Line("Claim requires manual review", <<>>))>>
    \o factor_lines(result.factors)
    \o info_lines(pinfo)
    \o reference_lines(chunks)

---------------------------------------------------------------------------
(* QueryProcessor._format_referenced_clauses *)

excerpt_limit == 300

_format_referenced_clauses(chunks) ==
    [i \in 1..Len(chunks) |->
        [document |-> chunks[i].document,
         content |-> IF Len(chunks[i].chunk) > excerpt_limit
                     THEN SubSeq(chunks[i].chunk, 1, excerpt_limit) \o <<".", ".", ".">>
                     ELSE chunks[i].chunk,
         relevance_score |-> chunks[i].similarity,
         chunk_index |-> chunks[i].chunk_index]]

---------------------------------------------------------------------------
(* DocumentProcessor: text extraction, cleaning, chunking, term vectors *)

PageMarkOpen == <<"-", "-", "-", " ", "P", "a", "g", "e", " ">>
PageMarkClose == <<" ", "-", "-", "-">>
AllowedPunctuation == <<".", ",", ";", ":", "!", "?", "-", "(", ")", "/", "%", "$">>

\* str(n) for n >= 0
RECURSIVE IntToStr(_)
IntToStr(n) ==
    IF n < 10 THEN <<DigitChars[n + 1]>>
    ELSE IntToStr(n \div 10) \o <<DigitChars[(n % 10) + 1]>>

\* full_text += f"\n--- Page {page_num + 1} ---\n{text}" for the pages from page_num on
RECURSIVE page_texts(_, _)
page_texts(pages, page_num) ==
    IF page_num > Len(pages) THEN <<>>
    ELSE <<"\n">> \o PageMarkOpen \o IntToStr(page_num) \o PageMarkClose \o <<"\n">>
         \o pages[page_num] \o page_texts(pages, page_num + 1)

\* pdf is what fitz finds at the path: [readable |-> FALSE] when fitz.open or a
\* page read raises (the except returns ""), else [readable |-> TRUE, pages |-> texts]
_extract_text_from_pdf(pdf) ==
    IF pdf.readable THEN page_texts(pdf.pages, 1) ELSE <<>>

\* the positions 1..Len(s), in order
Positions(s) == [i \in 1..Len(s) |-> i]

\* re.sub(r'\s+', ' ', text): each run of whitespace becomes one space
collapse_whitespace(s) ==
    LET Keep(i) == ~IsSpace(s[i]) \/ i = 1 \/ ~IsSpace(s[i - 1])
        kept == SelectSeq(Positions(s), Keep)
    IN  [k \in 1..Len(kept) |-> IF IsSpace(s[kept[k]]) THEN " " ELSE s[kept[k]]]

\* the position after a match of r'--- Page \d+ ---' that starts at i, 0 if none
page_mark_end(s, i) ==
    LET ends == IF At(s, i, PageMarkOpen)
                THEN {e \in RunEnds(s, i + Len(PageMarkOpen), TRUE) : At(s, e, PageMarkClose)}
                ELSE {}
    IN  IF ends = {} THEN 0 ELSE Max(ends) + Len(PageMarkClose)

\* re.sub(r'--- Page \d+ ---', '', text), from position i on: the matches are
\* taken left to right and do not overlap
RECURSIVE remove_page_marks(_, _)
remove_page_marks(s, i) ==
    LET starts == {m \in i..Len(s) : page_mark_end(s, m) # 0}
    IN  IF starts = {} THEN SubSeq(s, i, Len(s))
        ELSE SubSeq(s, i, Min(starts) - 1)
             \o remove_page_marks(s, page_mark_end(s, Min(starts)))

\* re.sub(r'[^\w\s\.\,\;\:\!\?\-\(\)\/\%\$]', ' ', text)
replace_special(s) ==
    [i \in 1..Len(s) |->
        IF \/ IsWordChar(s[i])
           \/ IsSpace(s[i])
           \/ \E j \in 1..Len(AllowedPunctuation) : AllowedPunctuation[j] = s[i]
        THEN s[i] ELSE " "]

\* str.strip()
Strip(s) ==
    LET keep == {i \in 1..Len(s) : ~IsSpace(s[i])}
    IN  IF keep = {} THEN <<>> ELSE SubSeq(s, Min(keep), Max(keep))

_clean_text(text) ==
    Strip(collapse_whitespace(
        replace_special(remove_page_marks(collapse_whitespace(text), 1))))

\* str.split(): the whitespace-separated words of s
Split(s) ==
    LET IsStart(i) == ~IsSpace(s[i]) /\ (i = 1 \/ IsSpace(s[i - 1]))
        starts == SelectSeq(Positions(s), IsStart)
        WordEnd(b) == LET stops == {j \in b..Len(s) : IsSpace(s[j])}
                      IN  IF stops = {} THEN Len(s) ELSE Min(stops) - 1
    IN  [k \in 1..Len(starts) |-> SubSeq(s, starts[k], WordEnd(starts[k]))]

\* ' '.join(words)
RECURSIVE Join(_)
Join(words) ==
    IF Len(words) = 0 THEN <<>>
    ELSE IF Len(words) = 1 THEN words[1]
    ELSE LET half == Len(words) \div 2
         IN  Join(SubSeq(words, 1, half)) \o <<" ">>
             \o Join(SubSeq(words, half + 1, Len(words)))

default_chunk_size == 500
default_overlap == 100

\* for i in range(start, len(words), chunk_size - overlap): words[i:i + chunk_size]
\* (start is a 0-based index); a chunk that is empty after strip() is dropped
RECURSIVE chunk_words(_, _, _, _)
chunk_words(words, start, chunk_size, overlap) ==
    IF start >= Len(words) THEN <<>>
    ELSE LET stop == IF start + chunk_size < Len(words)
                     THEN start + chunk_size ELSE Len(words)
             chunk == Strip(Join(SubSeq(words, start + 1, stop)))
         IN  (IF Len(chunk) > 0 THEN <<chunk>> ELSE <<>>)
             \o chunk_words(words, start + (chunk_size - overlap), chunk_size, overlap)

\* chunking with windows that do not overlap
_create_semantic_chunks_without_overlap(text, chunk_size, overlap) ==
    chunk_words(Split(text), 0, chunk_size, 0)

_create_semantic_chunks(text, chunk_size, overlap) ==
    chunk_words(Split(text), 0, chunk_size, overlap)

insurance_terms ==
    << <<"c", "o", "v", "e", "r", "a", "g", "e">>,
       <<"p", "r", "e", "m", "i", "u", "m">>,
       <<"p", "o", "l", "i", "c", "y">>,
       <<"c", "l", "a", "i", "m">>,
       <<"b", "e", "n", "e", "f", "i", "t">>,
       <<"d", "e", "d", "u", "c", "t", "i", "b", "l", "e">>,
       <<"s", "u", "r", "g", "e", "r", "y">>,
       <<"t", "r", "e", "a", "t", "m", "e", "n", "t">>,
       <<"m", "e", "d", "i", "c", "a", "l">>,
       <<"h", "o", "s", "p", "i", "t", "a", "l">>,
       <<"d", "o", "c", "t", "o", "r">>,
       <<"p", "a", "t", "i", "e", "n", "t">>,
       <<"a", "g", "e">>,
       <<"y", "e", "a", "r">>,
       <<"m", "o", "n", "t", "h">>,
       <<"a", "m", "o", "u", "n", "t">>,
       <<"r", "u", "p", "e", "e", "s">>,
       <<"r", "s">>,
       <<"c", "o", "s", "t">>,
       <<"f", "e", "e">> >>

\* str.count(w): the non-overlapping occurrences of w in s, left to right from
\* position i on
RECURSIVE Count(_, _, _)
Count(s, i, w) ==
    LET hits == {j \in i..(Len(s) - Len(w) + 1) : At(s, j, w)}
    IN  IF hits = {} THEN 0 ELSE 1 + Count(s, Min(hits) + Len(w), w)

\* the term vector of one chunk: term counts, then [len(chunk), len(chunk.split())]
term_vector(chunk) ==
    [t \in 1..Len(insurance_terms) |-> Count(Lower(chunk), 1, insurance_terms[t])]
    \o <<Len(chunk), Len(Split(chunk))>>

\* np.array(embeddings).tolist(); np.array([]).tolist() = [] without chunks
_generate_embeddings(chunks) ==
    [i \in 1..Len(chunks) |-> term_vector(chunks[i])]

---------------------------------------------------------------------------
(* DocumentProcessor.process_document and the chunk store *)

\* os.path.basename(pdf_path)
basename(pdf_path) ==
    LET slashes == {i \in 1..Len(pdf_path) : pdf_path[i] = "/"}
    IN  IF slashes = {} THEN pdf_path
        ELSE SubSeq(pdf_path, Max(slashes) + 1, Len(pdf_path))

\* hashlib.md5(pdf_path.encode()).hexdigest(): a key that determines the path
\* (digest collisions are not modelled)
md5_hexdigest(pdf_path) == <<"md5", pdf_path>>

\* self.document_chunks is a dict: a sequence of [doc_id, data] entries with
\* distinct doc_id, in insertion order
dict_keys(d) == {d[i].doc_id : i \in 1..Len(d)}
dict_get(d, doc_id) == d[CHOOSE i \in 1..Len(d) : d[i].doc_id = doc_id].data
\* d[doc_id] = data
dict_set(d, doc_id, data) ==
    IF doc_id \in dict_keys(d)
    THEN [i \in 1..Len(d) |-> IF d[i].doc_id = doc_id
                               THEN [doc_id |-> doc_id, data |-> data] ELSE d[i]]
    ELSE Append(d, [doc_id |-> doc_id, data |-> data])

\* a record written before its embeddings are there
document_record_embeddings_pending(model, pdf_path, cleaned_text, chunks, embeddings) ==
    [file_path |-> pdf_path,
     filename |-> basename(pdf_path),
     error |-> None,
     text_content |-> cleaned_text,
     chunks |-> chunks,
     embeddings |-> <<>>,
     metadata |-> Some([chunk_count |-> Len(chunks),
                        text_length |-> Len(cleaned_text),
                        embedding_model |-> IF IsSome(model) THEN Some("all-MiniLM-L6-v2")
                                            ELSE None])]

\* The try block of process_document (lines 40-79).  The "error" key, absent
\* from this dict, is None; policy_info and processed_at (the clock) are left out.
document_record(model, pdf_path, cleaned_text, chunks, embeddings) ==
    [file_path |-> pdf_path,
     filename |-> basename(pdf_path),
     error |-> None,
     text_content |-> cleaned_text,
     chunks |-> chunks,
     embeddings |-> embeddings,
     metadata |-> Some([chunk_count |-> Len(chunks),
                        text_length |-> Len(cleaned_text),
                        embedding_model |-> IF IsSome(model) THEN Some("all-MiniLM-L6-v2")
                                            ELSE None])]

document_data_of(model, pdf_path, pdf) ==
    The({The({document_record(model, pdf_path, cleaned_text, chunks,
                              _generate_embeddings(chunks)) :
                 chunks \in {_create_semantic_chunks(cleaned_text, default_chunk_size,
                                                     default_overlap)}}) :
            cleaned_text \in {_clean_text(_extract_text_from_pdf(pdf))}})

\* The except block of process_document (lines 81-93), for exception message e
document_error_of(pdf_path, e) ==
    [file_path |-> pdf_path,
     filename |-> basename(pdf_path),
     error |-> Some(e),
     text_content |-> <<>>,
     chunks |-> <<>>,
     embeddings |-> <<>>,
     metadata |-> None]

\* process_document(pdf_path) on the store d.  thrown is None, or Some(e) when a
\* statement of the try block raises Exception e before the store is written.
\* The result is the new store, the returned record, and whether it raised.
process_document(d, model, pdf_path, pdf, thrown) ==
    IF IsSome(thrown)
    THEN [store |-> d, value |-> document_error_of(pdf_path, Val(thrown)), raised |-> FALSE]
    ELSE The({[store |-> dict_set(d, md5_hexdigest(pdf_path), document_data),
               value |-> document_data,
               raised |-> FALSE] :
                  document_data \in {document_data_of(model, pdf_path, pdf)}})

---------------------------------------------------------------------------
(* DocumentProcessor.search_similar_chunks *)

similarity_threshold == Rat(5, 10)

RECURSIVE dot(_, _, _)
dot(u, v, i) ==
    IF i > Len(u) \/ i > Len(v) THEN 0 ELSE u[i] * v[i] + dot(u, v, i + 1)

\* seq[:n]
Take(seq, n) == SubSeq(seq, 1, IF n < Len(seq) THEN n ELSE Len(seq))

\* np.argsort(similarities)[-top_k:][::-1]: the chunk indices (1-based here) by
\* descending similarity, the later chunk first among equal ones
top_indices(similarities, k) ==
    LET n == Len(similarities)
        rank(x) == 1 + Cardinality({y \in 1..n :
                        \/ similarities[y] > similarities[x]
                        \/ (similarities[y] = similarities[x] /\ y > x)})
        order == [r \in 1..n |-> CHOOSE x \in 1..n : rank(x) = r]
    IN  Take(order, k)

\* the hits one document contributes (lines 223-239)
RECURSIVE hits_of(_, _, _, _)
hits_of(doc_data, similarities, indices, j) ==
    IF j > Len(indices) THEN <<>>
    ELSE LET idx == indices[j]
         IN  (IF RLt(similarity_threshold, RInt(similarities[idx]))
              THEN <<[document |-> doc_data.filename,
                      chunk |-> doc_data.chunks[idx],
                      similarity |-> RInt(similarities[idx]),
                      chunk_index |-> idx - 1]>>
              ELSE <<>>)
             \o hits_of(doc_data, similarities, indices, j + 1)

\* the loop over self.document_chunks.items() (lines 219-239), from entry i on
RECURSIVE similar_chunks_from(_, _, _, _)
similar_chunks_from(d, query_embedding, k, i) ==
    IF i > Len(d) THEN <<>>
    ELSE LET doc_data == d[i].data
             similarities == [c \in 1..Len(doc_data.embeddings) |->
                                 dot(doc_data.embeddings[c], query_embedding, 1)]
         IN  (IF Len(doc_data.embeddings) = 0 \/ Len(doc_data.chunks) = 0
              THEN <<>>
              ELSE hits_of(doc_data, similarities, top_indices(similarities, k), 1))
             \o similar_chunks_from(d, query_embedding, k, i + 1)

\* list.sort(key=similarity, reverse=True): stable, descending
sort_by_similarity(hits) ==
    LET n == Len(hits)
        rank(x) == 1 + Cardinality({y \in 1..n :
                        \/ RLt(hits[x].similarity, hits[y].similarity)
                        \/ (REq(hits[x].similarity, hits[y].similarity) /\ y < x)})
    IN  [r \in 1..n |-> hits[CHOOSE x \in 1..n : rank(x) = r]]

\* search_similar_chunks without the None guard and without the try/except:
\* None.encode raises AttributeError, and a scoring exception is not caught
search_similar_chunks_unguarded(d, model, q, k, scoring_error) ==
    IF IsNone(model) \/ scoring_error THEN [value |-> <<>>, raised |-> TRUE]
    ELSE [value |-> Take(sort_by_similarity(similar_chunks_from(d, Val(model)[q], k, 1)), k),
          raised |-> FALSE]

\* search_similar_chunks(query, top_k) on the store d.  model is the value of
\* self.embedding_model: None, or Some(encode) with encode a function from
\* query strings to vectors.  scoring_error: a statement of the try block
\* raises Exception (the except returns []).
search_similar_chunks(d, model, q, k, scoring_error) ==
    IF IsNone(model) THEN [value |-> <<>>, raised |-> FALSE]
    ELSE IF scoring_error THEN [value |-> <<>>, raised |-> FALSE]
    ELSE [value |-> Take(sort_by_similarity(similar_chunks_from(d, Val(model)[q], k, 1)), k),
          raised |-> FALSE]

---------------------------------------------------------------------------
(* QueryProcessor.process_query *)

pipeline_stages == {"parse", "search", "decision", "justification", "confidence", "format"}
default_top_k == 5

\* the except block (lines 78-88), for exception message e
error_response(e) ==
    [decision |-> "error",
     amount |-> 0,
     justification |-> <<Line("Error processing query: {str(e)}", <<e>>)>>,
     confidence_score |-> RInt(0),
     referenced_clauses |-> <<>>,
     parsed_info |-> None,
     processing_metadata |-> None]

\* the response dict built at lines 62-74; the timestamp (the clock) is left out
response_of(pinfo, chunks, result) ==
    [decision |-> result.decision,
     amount |-> result.amount,
     justification |-> _generate_justification(pinfo, chunks, result),
     confidence_score |-> _calculate_confidence_score(pinfo, chunks, result),
     referenced_clauses |-> _format_referenced_clauses(chunks),
     parsed_info |-> Some(pinfo),
     processing_metadata |-> Some([chunks_analyzed |-> Len(chunks),
                                   decision_factors |-> result.factors])]

\* the try block (lines 41-76): each local is bound once, to its value
pipeline_response(d, model, q) ==
    The({The({The({response_of(pinfo, chunks, result) :
                      result \in {_make_decision(pinfo, chunks)}}) :
                 chunks \in {search_similar_chunks(d, model, q, default_top_k, FALSE).value}}) :
            pinfo \in {_parse_query_details(q)}})

\* process_query with _format_referenced_clauses called after the try block:
\* an exception of the "format" stage reaches the caller
process_query_format_after_try(d, model, q, thrown) ==
    IF IsSome(thrown) /\ Val(thrown).stage = "format"
    THEN [value |-> error_response(Val(thrown).message), raised |-> TRUE]
    ELSE IF IsSome(thrown) /\ Val(thrown).stage \in pipeline_stages
    THEN [value |-> error_response(Val(thrown).message), raised |-> FALSE]
    ELSE [value |-> pipeline_response(d, model, q), raised |-> FALSE]

\* process_query(query, session_id) on the store d.  thrown is None, or
\* Some([stage, message]) when that stage of the try block raises Exception
\* with that message (a query that is not a str makes re.search raise TypeError
\* in "parse", a chunk without a "chunk" key makes "decision" raise KeyError).
\* No stage writes shared state, so the stages before it leave no trace.
process_query(d, model, q, thrown) ==
    IF IsSome(thrown) /\ Val(thrown).stage \in pipeline_stages
    THEN [value |-> error_response(Val(thrown).message), raised |-> FALSE]
    ELSE [value |-> pipeline_response(d, model, q), raised |-> FALSE]

---------------------------------------------------------------------------
(* Inputs of the system specification *)

Path_a == <<"/", "a", "p", "p", "/", "a", ".", "p", "d", "f">>
Path_b == <<"/", "a", "p", "p", "/", "b", ".", "p", "d", "f">>
Page_exclusion == <<"K", "n", "e", "e", ":", " ", "e", "x", "c", "l", "u", "s", "i", "o", "n", "*">>
Page_coverage == <<"C", "o", "v", "e", "r", "a", "g", "e", ":", " ", "R", "s", " ", "9", ",", "0", "0", "0">>
Page_premium == <<"n", "o", " ", " ", "f", "e", "e">>
Query_knee == <<"k", "n", "e", "e">>
Query_61y == <<"6", "1", "y">>

\* the exception a file makes process_document meet: the one thrown inside its
\* try block, else the one fitz.open raises inside _extract_text_from_pdf
fault_of(pdf, thrown) ==
    IF IsSome(thrown) THEN thrown
    ELSE IF ~pdf.readable THEN Some("cannot open file") ELSE None

PdfPaths == {Path_a, Path_b}
PdfFiles ==
    {[readable |-> FALSE, pages |-> <<>>],
     [readable |-> TRUE, pages |-> <<Page_exclusion>>],
     [readable |-> TRUE, pages |-> <<Page_coverage, Page_premium>>]}
SystemQueries == {<<>>, Query_knee, Query_61y}
ExceptionMessages == {"KeyError: 'chunk'"}
DocumentFaults == {None} \cup {Some(e) : e \in ExceptionMessages}
QueryFaults ==
    {None} \cup {Some([stage |-> st, message |-> e]) : st \in pipeline_stages,
                                                       e \in ExceptionMessages}
\* the top_k arguments tried: 1..MaxTopK and the default
MaxTopK == 2
TopKs == 1..MaxTopK \cup {default_top_k}

---------------------------------------------------------------------------
(* The system: a DocumentProcessor and a QueryProcessor serving requests *)

\* a construction that loads an embedding model (queries encoded as term vectors)
Init_with_embedding_model ==
    /\ embedding_model = Some([q \in SystemQueries |-> term_vector(q)])
    /\ document_chunks = <<>>
    /\ op = "init"
    /\ query = <<>>
    /\ top_k = default_top_k
    /\ parsed_info = None
    /\ relevant_chunks = <<>>
    /\ decision_result = None
    /\ confidence_score = None
    /\ response = None
    /\ raised = FALSE
    /\ fault = None
    /\ QueryProcessorInit
    /\ documents_collection = <<>>
    /\ scan_pos = 0

\* DocumentProcessor.__init__ / _initialize_embedding_model: the model is None
Init ==
    /\ embedding_model = None
    /\ document_chunks = <<>>
    /\ op = "init"
    /\ query = <<>>
    /\ top_k = default_top_k
    /\ parsed_info = None
    /\ relevant_chunks = <<>>
    /\ decision_result = None
    /\ confidence_score = None
    /\ response = None
    /\ raised = FALSE
    /\ fault = None
    /\ QueryProcessorInit
    /\ documents_collection = <<>>
    /\ scan_pos = 0

ProcessDocument ==
    \E pdf_path \in PdfPaths, pdf \in PdfFiles, f \in DocumentFaults :
        \E r \in {process_document(document_chunks, embedding_model, pdf_path, pdf, f)} :
            /\ document_chunks' = r.store
            /\ op' = "process_document"
            /\ response' = Some(r.value)
            /\ raised' = r.raised
            /\ fault' = fault_of(pdf, f)
            /\ query' = <<>>
            /\ top_k' = default_top_k
            /\ parsed_info' = None
            /\ relevant_chunks' = <<>>
            /\ decision_result' = None
            /\ confidence_score' = None
            /\ UNCHANGED <<self_decision_rules, self_procedure_mappings,
                            documents_collection, scan_pos, embedding_model>>

SearchSimilarChunks ==
    \E q \in SystemQueries, k \in TopKs, scoring_error \in BOOLEAN :
        \E r \in {search_similar_chunks(document_chunks, embedding_model, q, k, scoring_error)} :
            /\ op' = "search_similar_chunks"
            /\ query' = q
            /\ top_k' = k
            /\ response' = IF r.raised THEN None ELSE Some(r.value)
            /\ raised' = r.raised
            /\ fault' = IF scoring_error THEN Some("scoring") ELSE None
            /\ relevant_chunks' = r.value
            /\ parsed_info' = None
            /\ decision_result' = None
            /\ confidence_score' = None
            /\ UNCHANGED <<self_decision_rules, self_procedure_mappings, documents_collection,
                   scan_pos, embedding_model, document_chunks>>

\* process_query leaving the amount it decided as the next base amount
ProcessQuery_keeping_amount ==
    \E q \in SystemQueries, f \in QueryFaults :
        \E r \in {process_query(document_chunks, embedding_model, q, f)} :
            /\ op' = "process_query"
            /\ query' = q
            /\ top_k' = default_top_k
            /\ response' = IF r.raised THEN None ELSE Some(r.value)
            /\ raised' = r.raised
            /\ fault' = f
            /\ parsed_info' = IF r.raised THEN None ELSE r.value.parsed_info
            /\ relevant_chunks' = <<>>
            /\ decision_result' = None
            /\ confidence_score' = IF r.raised THEN None ELSE Some(r.value.confidence_score)
            /\ self_decision_rules' =
                  [self_decision_rules EXCEPT !.base_coverage_amount = r.value.amount]
            /\ UNCHANGED <<self_procedure_mappings, documents_collection,
                   scan_pos, embedding_model, document_chunks>>

ProcessQuery ==
    \E q \in SystemQueries, f \in QueryFaults :
        \E r \in {process_query(document_chunks, embedding_model, q, f)} :
            /\ op' = "process_query"
            /\ query' = q
            /\ top_k' = default_top_k
            /\ response' = IF r.raised THEN None ELSE Some(r.value)
            /\ raised' = r.raised
            /\ fault' = f
            /\ parsed_info' = IF r.raised THEN None ELSE r.value.parsed_info
            /\ relevant_chunks' = <<>>
            /\ decision_result' = None
            /\ confidence_score' = IF r.raised THEN None ELSE Some(r.value.confidence_score)
            /\ UNCHANGED <<self_decision_rules, self_procedure_mappings, documents_collection,
                   scan_pos, embedding_model, document_chunks>>

Next == ProcessDocument \/ SearchSimilarChunks \/ ProcessQuery

Spec == Init /\ [][Next]_vars

---------------------------------------------------------------------------
(* The query pipeline as a function of the query text: process_query on a  *)
(* freshly constructed QueryProcessor (empty chunk store).                 *)

Age_46_year_old_male == <<"4", "6", "-", "y", "e", "a", "r", "-", "o", "l", "d", " ", "m", "a", "l", "e", ",", " ">>
Age_healthy_30_year_old == <<"h", "e", "a", "l", "t", "h", "y", " ", "3", "0", " ", "y", "e", "a", "r", " ", "o", "l", "d", ",", " ">>
Age_61y == <<"6", "1", "y", " ">>
Age_80_year_old_F == <<"8", "0", " ", "y", "e", "a", "r", " ", "o", "l", "d", " ", "F", ",", " ">>
Proc_knee_surgery == <<"k", "n", "e", "e", " ", "s", "u", "r", "g", "e", "r", "y">>
Proc_dental_treatment == <<"d", "e", "n", "t", "a", "l", " ", "t", "r", "e", "a", "t", "m", "e", "n", "t">>
Proc_heart_operation_in_Pune == <<"h", "e", "a", "r", "t", " ", "o", "p", "e", "r", "a", "t", "i", "o", "n", " ", "i", "n", " ", "P", "u", "n", "e">>
Proc_hello == <<"h", "e", "l", "l", "o">>
Proc_policy_123_status == <<"p", "o", "l", "i", "c", "y", " ", "1", "2", "3", " ", "s", "t", "a", "t", "u", "s">>
Proc_what_is_covered == <<"W", "h", "a", "t", " ", "i", "s", " ", "c", "o", "v", "e", "r", "e", "d", "?">>
Dur_policy_3_months_old == <<",", " ", "p", "o", "l", "i", "c", "y", " ", "3", " ", "m", "o", "n", "t", "h", "s", " ", "o", "l", "d">>
Dur_14_month_policy == <<",", " ", "1", "4", " ", "m", "o", "n", "t", "h", " ", "p", "o", "l", "i", "c", "y">>
Dur_0_month_policy == <<",", " ", "0", " ", "m", "o", "n", "t", "h", " ", "p", "o", "l", "i", "c", "y">>
Dur_2_year_policy == <<",", " ", "2", " ", "y", "e", "a", "r", " ", "p", "o", "l", "i", "c", "y">>
Dur_90_day_old == <<",", " ", "9", "0", " ", "d", "a", "y", " ", "o", "l", "d">>

AgeFragments ==
    {<<>>, Age_46_year_old_male, Age_healthy_30_year_old, Age_61y, Age_80_year_old_F}
ProcedureFragments ==
    {<<>>, Proc_knee_surgery, Proc_dental_treatment, Proc_heart_operation_in_Pune,
     Proc_hello, Proc_policy_123_status, Proc_what_is_covered}
DurationFragments ==
    {<<>>, Dur_policy_3_months_old, Dur_14_month_policy, Dur_0_month_policy,
     Dur_2_year_policy, Dur_90_day_old}
PipelineQueries ==
    {a \o p \o d : a \in AgeFragments, p \in ProcedureFragments, d \in DurationFragments}

InitPipeline ==
    /\ embedding_model = None
    /\ document_chunks = <<>>
    /\ op = "input"
    /\ query \in PipelineQueries
    /\ top_k = default_top_k
    /\ parsed_info = None
    /\ relevant_chunks = <<>>
    /\ decision_result = None
    /\ confidence_score = None
    /\ response = None
    /\ raised = FALSE
    /\ fault = None
    /\ QueryProcessorInit
    /\ documents_collection = <<>>
    /\ scan_pos = 0

\* response = await process_query(query)
RunPipeline ==
    /\ op = "input"
    /\ \E r \in {process_query(document_chunks, embedding_model, query, None)} :
           /\ op' = "process_query"
           /\ response' = IF r.raised THEN None ELSE Some(r.value)
           /\ raised' = r.raised
           /\ parsed_info' = IF r.raised THEN None ELSE r.value.parsed_info
           /\ confidence_score' = IF r.raised THEN None ELSE Some(r.value.confidence_score)
    /\ UNCHANGED <<self_decision_rules, self_procedure_mappings, documents_collection,
                   scan_pos, embedding_model, document_chunks, query, top_k, relevant_chunks,
                   decision_result, fault>>

NextPipeline == RunPipeline

SpecPipeline == InitPipeline /\ [][NextPipeline]_vars

---------------------------------------------------------------------------
(* _make_decision as a function of a ParsedQuery and a chunk list *)

Text_knee_exclusion == <<"E", "x", "c", "l", "u", "s", "i", "o", "n", ":", " ", "k", "n", "e", "e", " ", "r", "e", "p", "l", "a", "c", "e", "m", "e", "n", "t">>
Text_coverage_45000 == <<"c", "o", "v", "e", "r", "a", "g", "e", ":", " ", "r", "s", " ", "4", "5", "0", "0", "0">>
Text_coverage_90000 == <<"C", "o", "v", "e", "r", "a", "g", "e", " ", "l", "i", "m", "i", "t", ":", " ", "R", "s", ".", " ", "9", "0", ",", "0", "0", "0">>
Text_dental_not_covered == <<"d", "e", "n", "t", "a", "l", " ", "w", "o", "r", "k", " ", "i", "s", " ", "n", "o", "t", " ", "c", "o", "v", "e", "r", "e", "d">>
File_a == <<"a", ".", "p", "d", "f">>
File_b == <<"b", ".", "p", "d", "f">>

\* a chunk as search_similar_chunks returns it
MatchedChunk(document, text, similarity, chunk_index) ==
    [document |-> document, chunk |-> text, similarity |-> similarity,
     chunk_index |-> chunk_index]

DecideChunks ==
    {MatchedChunk(File_a, Text_knee_exclusion, RInt(9), 0),
     MatchedChunk(File_a, Text_coverage_45000, RInt(7), 1),
     MatchedChunk(File_b, Text_coverage_90000, RInt(7), 0),
     MatchedChunk(File_b, Text_dental_not_covered, RInt(3), 1)}
\* the longest chunk list tried
MaxChunks == 2
DecideChunkLists == UNION {[1..n -> DecideChunks] : n \in 0..MaxChunks}

DecideAges == {None, Some(0), Some(60), Some(61), Some(75), Some(76)}
DecideProcedures == {None, Some(S_knee), Some(S_dental)}
\* months; a duration given in days is days / 30
DecideDurations ==
    {None, Some(RInt(0)), Some(Rat(10, 30)), Some(RInt(5)), Some(RInt(6)), Some(RInt(24))}

ParsedQuery(age, procedure, policy_duration) ==
    [age |-> age, gender |-> None, procedure |-> procedure, location |-> None,
     policy_duration |-> policy_duration, policy_duration_unit |-> None,
     raw_query |-> <<>>]

InitDecide ==
    /\ embedding_model = None
    /\ document_chunks = <<>>
    /\ op = "input"
    /\ query = <<>>
    /\ top_k = default_top_k
    /\ \E age \in DecideAges, procedure \in DecideProcedures,
          policy_duration \in DecideDurations :
           parsed_info = Some(ParsedQuery(age, procedure, policy_duration))
    /\ relevant_chunks \in DecideChunkLists
    /\ decision_result = None
    /\ confidence_score = None
    /\ response = None
    /\ raised = FALSE
    /\ fault = None
    /\ QueryProcessorInit
    /\ documents_collection = <<>>
    /\ scan_pos = 0

\* decision_result = await self._make_decision(parsed_info, relevant_chunks)
MakeDecision ==
    /\ op = "input"
    /\ op' = "_make_decision"
    /\ decision_result' = Some(_make_decision(Val(parsed_info), relevant_chunks))
    /\ UNCHANGED <<self_decision_rules, self_procedure_mappings, documents_collection,
                   scan_pos, embedding_model, document_chunks, query, top_k, parsed_info,
                   relevant_chunks, confidence_score, response, raised, fault>>

NextDecide == MakeDecision

SpecDecide == InitDecide /\ [][NextDecide]_vars

---------------------------------------------------------------------------
(* _calculate_confidence_score as a function of its three arguments *)

ConfidenceAges == {None, Some(46)}
ConfidenceProcedures == {None, Some(S_knee)}
ConfidenceDurations == {None, Some(RInt(0)), Some(RInt(12))}
Similarities == {Rat(-1, 1), RInt(0), Rat(1, 2), RInt(1), Rat(5, 2)}
\* the longest chunk list and the longest factor list tried
MaxSimChunks == 2
MaxFactors == 4
ConfidenceChunkLists ==
    UNION {[1..n -> {MatchedChunk(File_a, <<>>, s, 0) : s \in Similarities}] :
              n \in 0..MaxSimChunks}
FactorLists ==
    {[i \in 1..n |-> [kind |-> "Age penalty applied", age |-> 61]] : n \in 0..MaxFactors}

InitConfidence ==
    /\ embedding_model = None
    /\ document_chunks = <<>>
    /\ op = "input"
    /\ query = <<>>
    /\ top_k = default_top_k
    /\ \E age \in ConfidenceAges, procedure \in ConfidenceProcedures,
          policy_duration \in ConfidenceDurations :
           parsed_info = Some(ParsedQuery(age, procedure, policy_duration))
    /\ relevant_chunks \in ConfidenceChunkLists
    /\ \E factors \in FactorLists :
           decision_result = Some([decision |-> "approved",
                                   amount |-> base_coverage_amount,
                                   factors |-> factors])
    /\ confidence_score = None
    /\ response = None
    /\ raised = FALSE
    /\ fault = None
    /\ QueryProcessorInit
    /\ documents_collection = <<>>
    /\ scan_pos = 0

\* confidence_score = self._calculate_confidence_score(parsed_info,
\*                        relevant_chunks, decision_result)
CalculateConfidenceScore ==
    /\ op = "input"
    /\ op' = "_calculate_confidence_score"
    /\ confidence_score' = Some(_calculate_confidence_score(
                                    Val(parsed_info), relevant_chunks, Val(decision_result)))
    /\ UNCHANGED <<self_decision_rules, self_procedure_mappings, documents_collection,
                   scan_pos, embedding_model, document_chunks, query, top_k, parsed_info,
                   relevant_chunks, decision_result, response, raised, fault>>

NextConfidence == CalculateConfidenceScore

SpecConfidence == InitConfidence /\ [][NextConfidence]_vars

---------------------------------------------------------------------------
(* server.py: startup_event and process_existing_documents.  The MongoDB   *)
(* collection outlives the process; the DocumentProcessor and the          *)
(* QueryProcessor are constructed anew at every start.                     *)

\* await documents_collection.find_one({"name": filename})
find_one(db, name) ==
    LET hits == {i \in 1..Len(db) : db[i].name = name}
    IN  IF hits = {} THEN None ELSE Some(db[Min(hits)])

\* the doc_data dict (lines 99-106); id (a fresh uuid4) and upload_date (the
\* clock) are left out
doc_data_of(filename, processed_content) ==
    [name |-> filename, type |-> "pdf", processed |-> TRUE, content |-> processed_content]

\* the loop without the find_one check: every file found is processed and inserted
RECURSIVE process_existing_documents_unchecked(_, _, _, _, _)
process_existing_documents_unchecked(db, d, model, pdf_files, i) ==
    IF i > Len(pdf_files) THEN [db |-> db, store |-> d, raised |-> FALSE]
    ELSE The({IF r.raised THEN [db |-> db, store |-> r.store, raised |-> TRUE]
              ELSE process_existing_documents_unchecked(
                       Append(db, doc_data_of(basename(pdf_files[i].path), r.value)),
                       r.store, model, pdf_files, i + 1) :
                 r \in {process_document(d, model, pdf_files[i].path, pdf_files[i].pdf,
                                         pdf_files[i].thrown)}})

\* the for loop of process_existing_documents from file i on.  pdf_files is
\* the result of glob.glob("/app/*.pdf") with what each path holds: a sequence
\* of [path, pdf, thrown].  The result is the collection, the chunk store and
\* whether a call of process_document raised (which ends the loop).
RECURSIVE process_existing_documents_from(_, _, _, _, _)
process_existing_documents_from(db, d, model, pdf_files, i) ==
    IF i > Len(pdf_files) THEN [db |-> db, store |-> d, raised |-> FALSE]
    ELSE IF IsSome(find_one(db, basename(pdf_files[i].path)))
    THEN process_existing_documents_from(db, d, model, pdf_files, i + 1)
    ELSE The({IF r.raised THEN [db |-> db, store |-> r.store, raised |-> TRUE]
              ELSE process_existing_documents_from(
                       Append(db, doc_data_of(basename(pdf_files[i].path), r.value)),
                       r.store, model, pdf_files, i + 1) :
                 r \in {process_document(d, model, pdf_files[i].path, pdf_files[i].pdf,
                                         pdf_files[i].thrown)}})

process_existing_documents(db, d, model, pdf_files) ==
    process_existing_documents_from(db, d, model, pdf_files, 1)

\* what /app can hold: each path absent or present with some content, in
\* either glob order
PdfFile(path, pdf, thrown) == [path |-> path, pdf |-> pdf, thrown |-> thrown]
FilesAt(path) == {PdfFile(path, pdf, thrown) : pdf \in PdfFiles, thrown \in DocumentFaults}
DiskStates ==
    {<<>>}
    \cup {<<f>> : f \in FilesAt(Path_a) \cup FilesAt(Path_b)}
    \cup {<<f, g>> : f \in FilesAt(Path_a), g \in FilesAt(Path_b)}
    \cup {<<g, f>> : f \in FilesAt(Path_a), g \in FilesAt(Path_b)}

InitServer ==
    /\ embedding_model = None
    /\ document_chunks = <<>>
    /\ op = "init"
    /\ query = <<>>
    /\ top_k = default_top_k
    /\ parsed_info = None
    /\ relevant_chunks = <<>>
    /\ decision_result = None
    /\ confidence_score = None
    /\ response = None
    /\ raised = FALSE
    /\ fault = None
    /\ QueryProcessorInit
    /\ documents_collection = <<>>
    /\ scan_pos = 0

\* startup_event (lines 66-82): the services are constructed, then the files
\* of /app are ingested.  response records the files found.
StartupEvent ==
    \E pdf_files \in DiskStates :
        \E r \in {process_existing_documents(documents_collection, <<>>, None, pdf_files)} :
            /\ embedding_model' = None
            /\ document_chunks' = r.store
            /\ documents_collection' = r.db
            /\ self_decision_rules' = decision_rules
            /\ self_procedure_mappings' = procedure_mappings
            /\ op' = "startup_event"
            /\ response' = Some(pdf_files)
            /\ raised' = r.raised
            /\ fault' = None
            /\ query' = <<>>
            /\ top_k' = default_top_k
            /\ parsed_info' = None
            /\ relevant_chunks' = <<>>
            /\ decision_result' = None
            /\ confidence_score' = None
            /\ UNCHANGED scan_pos

NextServer == StartupEvent

SpecServer == InitServer /\ [][NextServer]_vars

---------------------------------------------------------------------------
(* _format_referenced_clauses on its own, over chunk texts around the limit *)

\* a chunk text of n characters
TextOfLen(n) == [i \in 1..n |-> "x"]
ClauseTextLengths ==
    {0, 1, excerpt_limit - 1, excerpt_limit, excerpt_limit + 1, excerpt_limit + 5}
FormatChunks ==
    {MatchedChunk(document, TextOfLen(n), similarity, chunk_index) :
        document \in {File_a, File_b}, n \in ClauseTextLengths,
        similarity \in {Rat(6, 10)}, chunk_index \in {0, 1}}
MaxClauses == 2
FormatChunkLists ==
    UNION {[1..n -> FormatChunks] : n \in 0..MaxClauses}

InitFormat ==
    /\ embedding_model = None
    /\ document_chunks = <<>>
    /\ op = "input"
    /\ query = <<>>
    /\ top_k = default_top_k
    /\ parsed_info = None
    /\ relevant_chunks \in FormatChunkLists
    /\ decision_result = None
    /\ confidence_score = None
    /\ response = None
    /\ raised = FALSE
    /\ fault = None
    /\ QueryProcessorInit
    /\ documents_collection = <<>>
    /\ scan_pos = 0

\* "referenced_clauses": self._format_referenced_clauses(relevant_chunks)
FormatReferencedClauses ==
    /\ op = "input"
    /\ op' = "_format_referenced_clauses"
    /\ response' = Some(_format_referenced_clauses(relevant_chunks))
    /\ UNCHANGED <<self_decision_rules, self_procedure_mappings, documents_collection,
                   scan_pos, embedding_model, document_chunks, query, top_k, parsed_info,
                   relevant_chunks, decision_result, confidence_score, raised, fault>>

NextFormat == FormatReferencedClauses
SpecFormat == InitFormat /\ [][NextFormat]_vars

---------------------------------------------------------------------------
(* _make_decision statement by statement: op is the statement last executed,
   decision_result the local decision, amount and decision_factors, scan_pos
   the number of chunks the for loop has taken *)

Text_knee_not_covered_coverage_99000 == <<"K", "n", "e", "e", " ", "i", "s", " ", "n", "o", "t", " ", "c", "o", "v", "e", "r", "e", "d", ".", " ", "C", "o", "v", "e", "r", "a", "g", "e", ":", " ", "R", "s", " ", "9", "9", "0", "0", "0">>
Text_coverage_10_then_95000 == <<"c", "o", "v", "e", "r", "a", "g", "e", ":", " ", "r", "s", " ", "1", "0", ";", " ", "c", "o", "v", "e", "r", "a", "g", "e", ":", " ", "r", "s", " ", "9", "5", "0", "0", "0">>
S_hip == <<"h", "i", "p">>

RuleChunks ==
    {MatchedChunk(File_a, Text_knee_exclusion, RInt(9), 0),
     MatchedChunk(File_b, Text_knee_not_covered_coverage_99000, RInt(8), 2),
     MatchedChunk(File_b, Text_coverage_90000, RInt(7), 0),
     MatchedChunk(File_a, Text_coverage_10_then_95000, RInt(6), 2)}
\* the longest chunk list scanned
MaxScanned == 2
RuleChunkLists == UNION {[1..n -> RuleChunks] : n \in 0..MaxScanned}
RuleAges == DecideAges
RuleProcedures ==
    {None, Some(S_hip)} \cup {Some(procedure_keywords[i]) : i \in 1..Len(procedure_keywords)}
RuleDurations == {None, Some(RInt(5))}

InitRules ==
    /\ embedding_model = None
    /\ document_chunks = <<>>
    /\ op = "input"
    /\ query = <<>>
    /\ top_k = default_top_k
    /\ \E age \in RuleAges, procedure \in RuleProcedures, policy_duration \in RuleDurations :
           parsed_info = Some(ParsedQuery(age, procedure, policy_duration))
    /\ relevant_chunks \in RuleChunkLists
    /\ decision_result = None
    /\ confidence_score = None
    /\ response = None
    /\ raised = FALSE
    /\ fault = None
    /\ QueryProcessorInit
    /\ documents_collection = <<>>
    /\ scan_pos = 0

\* lines 168-170
StartDecision ==
    /\ op = "input"
    /\ op' = "start"
    /\ decision_result' = Some(decision_start)
    /\ UNCHANGED <<self_decision_rules, self_procedure_mappings, documents_collection,
                   scan_pos, embedding_model, document_chunks, query, top_k, parsed_info,
                   relevant_chunks, confidence_score, response, raised, fault>>

\* lines 172-177
DurationRule ==
    /\ op = "start"
    /\ op' = "duration_rule"
    /\ decision_result' = Some(duration_rule(Val(decision_result), Val(parsed_info)))
    /\ UNCHANGED <<self_decision_rules, self_procedure_mappings, documents_collection,
                   scan_pos, embedding_model, document_chunks, query, top_k, parsed_info,
                   relevant_chunks, confidence_score, response, raised, fault>>

\* lines 179-188
AgeRule ==
    /\ op = "duration_rule"
    /\ op' = "age_rule"
    /\ decision_result' = Some(age_rule(Val(decision_result), Val(parsed_info)))
    /\ UNCHANGED <<self_decision_rules, self_procedure_mappings, documents_collection,
                   scan_pos, embedding_model, document_chunks, query, top_k, parsed_info,
                   relevant_chunks, confidence_score, response, raised, fault>>

\* lines 190-201
ProcedureRule ==
    /\ op = "age_rule"
    /\ op' = "procedure_rule"
    /\ decision_result' = Some(procedure_rule(Val(decision_result), Val(parsed_info)))
    /\ UNCHANGED <<self_decision_rules, self_procedure_mappings, documents_collection,
                   scan_pos, embedding_model, document_chunks, query, top_k, parsed_info,
                   relevant_chunks, confidence_score, response, raised, fault>>

\* lines 204-221: the loop body for the next chunk
ScanChunk ==
    /\ op \in {"procedure_rule", "scan_chunk"}
    /\ scan_pos < Len(relevant_chunks)
    /\ \E r \in {scan_chunk_step(Val(decision_result), Val(parsed_info).procedure,
                                 relevant_chunks[scan_pos + 1])} :
          /\ decision_result' = Some(r.st)
          /\ op' = IF r.break THEN "break" ELSE "scan_chunk"
    /\ scan_pos' = scan_pos + 1
    /\ UNCHANGED <<self_decision_rules, self_procedure_mappings, documents_collection,
                   embedding_model, document_chunks, query, top_k, parsed_info,
                   relevant_chunks, confidence_score, response, raised, fault>>

\* lines 223-227: the loop is over, by exhaustion or by break
ReturnDecision ==
    /\ \/ op = "break"
       \/ op \in {"procedure_rule", "scan_chunk"} /\ scan_pos = Len(relevant_chunks)
    /\ op' = "return"
    /\ response' = decision_result
    /\ UNCHANGED <<self_decision_rules, self_procedure_mappings, documents_collection,
                   scan_pos, embedding_model, document_chunks, query, top_k, parsed_info,
                   relevant_chunks, decision_result, confidence_score, raised, fault>>

NextRules ==
    \/ StartDecision
    \/ DurationRule
    \/ AgeRule
    \/ ProcedureRule
    \/ ScanChunk
    \/ ReturnDecision

SpecRules == InitRules /\ [][NextRules]_vars

---------------------------------------------------------------------------
(* _parse_query_details on its own, over queries made of procedure words *)

Word_hello == <<"h", "e", "l", "l", "o">>
Word_KNEE == <<"K", "N", "E", "E">>
Word_Dental == <<"D", "e", "n", "t", "a", "l">>
Word_Treatment == <<"T", "r", "e", "a", "t", "m", "e", "n", "t">>

ParseWords ==
    {S_knee, S_heart, S_surgery, S_cancer, S_dental, S_cosmetic, S_operation, S_procedure,
     S_treatment, Word_hello, Word_KNEE, Word_Dental, Word_Treatment}
\* the words of the longest query
MaxWords == 2
RECURSIVE JoinWords(_, _)
JoinWords(words, i) ==
    IF i > Len(words) THEN <<>>
    ELSE IF i = Len(words) THEN words[i]
    ELSE words[i] \o <<" ">> \o JoinWords(words, i + 1)
ParseQueries ==
    {JoinWords(words, 1) : words \in UNION {[1..n -> ParseWords] : n \in 0..MaxWords}}

InitParse ==
    /\ embedding_model = None
    /\ document_chunks = <<>>
    /\ op = "input"
    /\ query \in ParseQueries
    /\ top_k = default_top_k
    /\ parsed_info = None
    /\ relevant_chunks = <<>>
    /\ decision_result = None
    /\ confidence_score = None
    /\ response = None
    /\ raised = FALSE
    /\ fault = None
    /\ QueryProcessorInit
    /\ documents_collection = <<>>
    /\ scan_pos = 0

\* parsed_info = await self._parse_query_details(query)
ParseQueryDetails ==
    /\ op = "input"
    /\ op' = "_parse_query_details"
    /\ parsed_info' = Some(_parse_query_details(query))
    /\ UNCHANGED <<self_decision_rules, self_procedure_mappings, documents_collection,
                   scan_pos, embedding_model, document_chunks, query, top_k,
                   relevant_chunks, decision_result, confidence_score, response, raised,
                   fault>>

NextParse == ParseQueryDetails
SpecParse == InitParse /\ [][NextParse]_vars

---------------------------------------------------------------------------
(* _create_semantic_chunks on its own, with the default window and overlap,
   over cleaned texts of numbered words *)

\* the short texts have 0..MaxShortWords words
MaxShortWords == 20
\* the long texts have a word count next to a window start 400 k or a window
\* end 400 k + 500, for k up to MaxStrides
MaxStrides == 1
BoundaryWordCounts ==
    {n \in {(default_chunk_size - default_overlap) * k + e + d :
               k \in 0..MaxStrides, e \in {0, default_chunk_size}, d \in {-1, 0, 1}} : n >= 0}
WordPrefixes == {<<>>, <<"w">>, <<"c", "l", ".">>}
\* the cleaned text of the words prefix1 .. prefixn
NumberedText(prefix, n) == Join([i \in 1..n |-> prefix \o IntToStr(i)])
ChunkTexts ==
    {NumberedText(prefix, n) : prefix \in WordPrefixes, n \in 0..MaxShortWords}
    \cup {NumberedText(<<>>, n) : n \in BoundaryWordCounts}

InitChunk ==
    /\ embedding_model = None
    /\ document_chunks = <<>>
    /\ op = "input"
    /\ query \in ChunkTexts
    /\ top_k = default_top_k
    /\ parsed_info = None
    /\ relevant_chunks = <<>>
    /\ decision_result = None
    /\ confidence_score = None
    /\ response = None
    /\ raised = FALSE
    /\ fault = None
    /\ QueryProcessorInit
    /\ documents_collection = <<>>
    /\ scan_pos = 0

\* chunks = self._create_semantic_chunks(cleaned_text)
CreateSemanticChunks ==
    /\ op = "input"
    /\ op' = "_create_semantic_chunks"
    /\ response' = Some(_create_semantic_chunks(query, default_chunk_size, default_overlap))
    /\ UNCHANGED <<self_decision_rules, self_procedure_mappings, documents_collection,
                   scan_pos, embedding_model, document_chunks, query, top_k, parsed_info,
                   relevant_chunks, decision_result, confidence_score, raised, fault>>

NextChunk == CreateSemanticChunks
SpecChunk == InitChunk /\ [][NextChunk]_vars

---------------------------------------------------------------------------
(* Properties *)

\* C1: process_query never raises to its caller; when a stage of its pipeline
\* (parse, chunk search, decision, justification, confidence, clause formatting)
\* throws, it returns decision "error", amount 0, confidence_score 0, no
\* referenced clauses and a justification that holds the exception's message.
C1_ProcessQueryNeverRaises ==
    op = "process_query" =>
        /\ ~raised
        /\ IsSome(response)
        /\ IsSome(fault) =>
              /\ Val(response).decision = "error"
              /\ Val(response).amount = 0
              /\ REq(Val(response).confidence_score, RInt(0))
              /\ Val(response).referenced_clauses = <<>>
              /\ \E i \in 1..Len(Val(response).justification) :
                    \E k \in 1..Len(Val(response).justification[i].args) :
                        Val(response).justification[i].args[k] = Val(fault).message

\* a query whose decision stage threw, against a store that holds a document
C1_Witness ==
    /\ op = "process_query"
    /\ IsSome(fault)
    /\ Val(fault).stage = "decision"
    /\ Len(document_chunks) > 0
    /\ IsSome(response)
    /\ Val(response).decision = "error"

DurationInsufficient == "Policy duration is less than minimum required"

\* C2: a policy_duration that is present and below 6 months (0 and fractions of
\* a month included) makes _make_decision reject with amount 0 and the
\* duration factor first, whatever the age, procedure and chunks; an absent
\* policy_duration never yields the duration factor.
C2_ShortDurationRejects ==
    op = "_make_decision" =>
        /\ (/\ IsSome(Val(parsed_info).policy_duration)
            /\ RLt(Val(Val(parsed_info).policy_duration), RInt(6)))
           => /\ Val(decision_result).decision = "rejected"
              /\ Val(decision_result).amount = 0
              /\ Len(Val(decision_result).factors) > 0
              /\ Val(decision_result).factors[1].kind = DurationInsufficient
        /\ IsNone(Val(parsed_info).policy_duration)
           => \A i \in 1..Len(Val(decision_result).factors) :
                  Val(decision_result).factors[i].kind # DurationInsufficient

\* none of the extraction patterns of _parse_query_details matches q
NoPatternMatches(q) ==
    /\ \A k \in 1..Len(age_patterns) : IsNone(re_search(age_patterns[k], q))
    /\ IsNone(re_search(gender_pattern, q))
    /\ \A k \in 1..Len(procedure_keywords) : ~Contains(Lower(q), procedure_keywords[k])
    /\ \A k \in 1..Len(general_terms) : ~Contains(Lower(q), general_terms[k])
    /\ IsNone(re_search(location_pattern, q))
    /\ \A k \in 1..Len(duration_patterns) : IsNone(re_search(duration_patterns[k], q))

\* C3: for a query that no extraction pattern matches, the ParsedQuery has age,
\* gender, procedure, location and policy_duration absent, and the decision on
\* it with no chunks is approved, amount 50000, no factors.
C3_NoPatternApprovedBase ==
    (op = "process_query" /\ NoPatternMatches(query)) =>
        /\ IsSome(response)
        /\ IsNone(Val(parsed_info).age)
        /\ IsNone(Val(parsed_info).gender)
        /\ IsNone(Val(parsed_info).procedure)
        /\ IsNone(Val(parsed_info).location)
        /\ IsNone(Val(parsed_info).policy_duration)
        /\ Val(response).decision = "approved"
        /\ Val(response).amount = 50000
        /\ Val(Val(response).processing_metadata).chunks_analyzed = 0
        /\ Val(Val(response).processing_metadata).decision_factors = <<>>

\* "policy 123 status": digits and words, and no pattern matches
C3_Witness ==
    /\ op = "process_query"
    /\ query = Proc_policy_123_status
    /\ NoPatternMatches(query)
    /\ IsSome(response)
    /\ Val(response).decision = "approved"

Query_46_year_old_male_knee_surgery_policy_3_months_old ==
    Age_46_year_old_male \o Proc_knee_surgery \o Dur_policy_3_months_old

\* C4: the pipeline on "46-year-old male, knee surgery, policy 3 months old"
\* parses policy_duration = 3 months and rejects with amount 0 and a duration
\* factor that refers to 6 months.
C4_ExampleRejected ==
    (op = "process_query"
        /\ query = Query_46_year_old_male_knee_surgery_policy_3_months_old) =>
        /\ IsSome(response)
        /\ IsSome(Val(parsed_info).policy_duration)
        /\ REq(Val(Val(parsed_info).policy_duration), RInt(3))
        /\ Val(response).decision = "rejected"
        /\ Val(response).amount = 0
        /\ \E i \in 1..Len(Val(Val(response).processing_metadata).decision_factors) :
              LET factor == Val(Val(response).processing_metadata).decision_factors[i]
              IN  factor.kind = DurationInsufficient /\ factor.minimum_months = 6

\* C5: _calculate_confidence_score returns a value in [0,1] for every
\* combination of present fields, chunk similarities (above 1 and below 0
\* included) and factor count.
C5_ConfidenceInUnitInterval ==
    op = "_calculate_confidence_score" =>
        /\ IsSome(confidence_score)
        /\ RLe(RInt(0), Val(confidence_score))
        /\ RLe(Val(confidence_score), RInt(1))

\* the three factors sum to more than 1 and the score returned is 1
C5_Witness ==
    /\ op = "_calculate_confidence_score"
    /\ RLt(RInt(1), RAdd(RAdd(completeness_factor(Val(parsed_info)),
                              relevance_factor(relevant_chunks)),
                         clarity_factor(Val(decision_result))))
    /\ REq(Val(confidence_score), RInt(1))

\* age, procedure and policy_duration absent, no chunks, no factors
EmptyConfidenceInput ==
    /\ op = "_calculate_confidence_score"
    /\ IsNone(Val(parsed_info).age)
    /\ IsNone(Val(parsed_info).procedure)
    /\ IsNone(Val(parsed_info).policy_duration)
    /\ relevant_chunks = <<>>
    /\ Val(decision_result).factors = <<>>

\* C6 as stated: with age, procedure and policy_duration absent, no chunks and
\* no factors, _calculate_confidence_score returns 0.03.
C6_EmptyInputScores003 ==
    EmptyConfidenceInput => REq(Val(confidence_score), Rat(3, 100))

\* C6 as amended: with age, procedure and policy_duration absent, no chunks and
\* no factors, _calculate_confidence_score returns 0.1 (completeness 0,
\* relevance 0, and the flat clarity contribution 0.1, which is not weighted).
C6_EmptyInputScores01 ==
    EmptyConfidenceInput => REq(Val(confidence_score), Rat(1, 10))

C6_Witness ==
    EmptyConfidenceInput /\ IsSome(confidence_score)

\* min(max(x, 0), 1) on rationals
Clamp(x) == IF RLt(x, RInt(0)) THEN RInt(0) ELSE IF RLt(RInt(1), x) THEN RInt(1) ELSE x

PresentCount(pinfo) ==
    (IF IsSome(pinfo.age) THEN 1 ELSE 0) + (IF IsSome(pinfo.procedure) THEN 1 ELSE 0)
    + (IF IsSome(pinfo.policy_duration) THEN 1 ELSE 0)

RECURSIVE SimilaritySum(_)
SimilaritySum(chunks) ==
    IF chunks = <<>> THEN RInt(0)
    ELSE RAdd(Head(chunks).similarity, SimilaritySum(Tail(chunks)))

AvgSimilarity(chunks) ==
    IF chunks = <<>> THEN RInt(0)
    ELSE RMul(SimilaritySum(chunks), Rat(1, Len(chunks)))

ClarityTerm(factorCount) ==
    IF factorCount > 0
    THEN RMul(Rat(3, 10), IF factorCount >= 3 THEN RInt(1) ELSE Rat(factorCount, 3))
    ELSE Rat(1, 10)

\* C7: the confidence score equals
\* clamp01(0.3 * clamp01(present/3) + 0.4 * clamp01(avgSimilarity) + clarityTerm),
\* each component being clamped into [0,1] before its weight is applied.
C7_ConfidenceFormula ==
    op = "_calculate_confidence_score" =>
        REq(Val(confidence_score),
            Clamp(RAdd(RAdd(RMul(Rat(3, 10), Clamp(Rat(PresentCount(Val(parsed_info)), 3))),
                            RMul(Rat(4, 10), Clamp(AvgSimilarity(relevant_chunks)))),
                       ClarityTerm(Len(Val(decision_result).factors)))))

ComparedAges == {Val(a) : a \in DecideAges \ {None}}

\* C8: with procedure absent and the same policy_duration and chunk list, the
\* amount _make_decision returns for an age b >= a is never greater than the
\* amount it returns for age a (in particular for a = 60, b = 61).
C8_AgeMonotone ==
    (/\ op = "_make_decision"
     /\ IsNone(Val(parsed_info).procedure)
     /\ IsSome(Val(parsed_info).age)) =>
        \A b \in ComparedAges :
            b >= Val(Val(parsed_info).age) =>
                _make_decision([Val(parsed_info) EXCEPT !.age = Some(b)],
                               relevant_chunks).amount
                    <= Val(decision_result).amount

\* age 61 with a coverage chunk: the penalised 40000 raised to 45000, where
\* age 60 keeps 50000
C8_Witness ==
    /\ op = "_make_decision"
    /\ IsNone(Val(parsed_info).procedure)
    /\ Val(parsed_info).age = Some(61)
    /\ Val(decision_result).amount = 45000
    /\ _make_decision([Val(parsed_info) EXCEPT !.age = Some(60)], relevant_chunks).amount
           = 50000

\* every stored chunk with its dot-product score against the keyword feature
\* vector of q, documents in store order and chunks in chunk order, from
\* document i on
RECURSIVE ScoredChunks(_, _, _)
ScoredChunks(d, q, i) ==
    IF i > Len(d) THEN <<>>
    ELSE [c \in 1..Len(d[i].data.chunks) |->
             MatchedChunk(d[i].data.filename, d[i].data.chunks[c],
                          RInt(dot(d[i].data.embeddings[c], term_vector(q), 1)), c - 1)]
         \o ScoredChunks(d, q, i + 1)

AboveThreshold(hit) == RLt(Rat(1, 2), hit.similarity)

\* the first k of the stored chunks scoring above 0.5, by descending score,
\* equal scores in original chunk order
ExpectedSearch(d, q, k) ==
    Take(sort_by_similarity(SelectSeq(ScoredChunks(d, q, 1), AboveThreshold)), k)

\* C9: search_similar_chunks(query, top_k) returns exactly the first top_k of
\* the stored chunks whose dot-product score against the query's keyword
\* feature vector is > 0.5, by descending score, ties in chunk order, each
\* with its document name and chunk index.
C9_SearchReturnsTopScoring ==
    (op = "search_similar_chunks" /\ IsNone(fault)) =>
        relevant_chunks = ExpectedSearch(document_chunks, query, top_k)

\* C10: search_similar_chunks never raises: for every query, top_k and store
\* (scoring exception included) it returns a list ordered by descending
\* similarity, the empty list when no stored chunk exceeds the threshold.
C10_SearchNeverFails ==
    op = "search_similar_chunks" =>
        /\ ~raised
        /\ response = Some(relevant_chunks)
        /\ \A i \in 1..(Len(relevant_chunks) - 1) :
              RLe(relevant_chunks[i + 1].similarity, relevant_chunks[i].similarity)
        /\ ExpectedSearch(document_chunks, query, top_k) = <<>> => relevant_chunks = <<>>

\* a search whose scoring threw, against a store that holds chunks
C10_Witness ==
    /\ op = "search_similar_chunks"
    /\ fault = Some("scoring")
    /\ \E i \in 1..Len(document_chunks) : Len(document_chunks[i].data.chunks) > 0
    /\ response = Some(<<>>)

StoredNames(db) == {db[i].name : i \in 1..Len(db)}
AllStored(pdf_files, db) ==
    \A i \in 1..Len(pdf_files) : basename(pdf_files[i].path) \in StoredNames(db)

C12_FailureYieldsErrorRecord ==
    (op = "process_document" /\ IsSome(fault)) =>
        /\ ~raised
        /\ IsSome(Val(response).error)
        /\ Val(response).chunks = <<>>

\* C13: every entry of referenced_clauses has a content of at most 300
\* characters, whatever the length of the chunk text, and the entries follow
\* the matched chunks in order with the same document, score and chunk index.
C13_ExcerptAtMost300 ==
    op = "_format_referenced_clauses" =>
        /\ Len(Val(response)) = Len(relevant_chunks)
        /\ \A i \in 1..Len(relevant_chunks) :
              /\ Len(Val(response)[i].content) <= excerpt_limit
              /\ Val(response)[i].document = relevant_chunks[i].document
              /\ Val(response)[i].relevance_score = relevant_chunks[i].similarity
              /\ Val(response)[i].chunk_index = relevant_chunks[i].chunk_index

\* C14: whatever the order in which ingestions and queries run, every entry
\* visible in the chunk store is a whole document: its complete chunk list
\* with exactly one embedding vector per chunk, so no query sees a partly
\* inserted document.
C14_StoredEntriesComplete ==
    \A i \in 1..Len(document_chunks) :
        \E data \in {document_chunks[i].data} :
            /\ data.chunks = _create_semantic_chunks(data.text_content, default_chunk_size,
                                                     default_overlap)
            /\ Len(data.embeddings) = Len(data.chunks)
            /\ \A j \in 1..Len(data.chunks) : data.embeddings[j] = term_vector(data.chunks[j])
            /\ IsSome(data.metadata) /\ Val(data.metadata).chunk_count = Len(data.chunks)

\* a query run after an ingestion stored a document with at least one chunk,
\* then another ingestion, then the query
C14_Witness ==
    /\ op \in {"search_similar_chunks", "process_query"}
    /\ Len(document_chunks) = 2
    /\ \E i \in 1..Len(document_chunks) : Len(document_chunks[i].data.chunks) >= 1

\* C15: process_query and search_similar_chunks only read the shared state:
\* a query step, whether it succeeds or ends in the error response, leaves the
\* chunk store, the decision-rule thresholds and the procedure table as they
\* were, and its answer is the one determined by that state and the query.
C15_QueriesReadOnly ==
    [][op' \in {"process_query", "search_similar_chunks"} =>
          /\ document_chunks' = document_chunks
          /\ embedding_model' = embedding_model
          /\ self_decision_rules' = decision_rules
          /\ self_procedure_mappings' = procedure_mappings
          /\ (op' = "process_query" =>
                response' = Some(process_query(document_chunks, embedding_model,
                                               query', fault').value))]_vars

\* a query answered with the error response over a store holding a document
C15_Witness ==
    /\ op = "process_query"
    /\ IsSome(fault)
    /\ IsSome(response) /\ Val(response).decision = "error"
    /\ Len(document_chunks) >= 1
    /\ self_decision_rules = decision_rules

\* s is an initial part of t
IsPrefix(s, t) == Len(s) <= Len(t) /\ SubSeq(t, 1, Len(s)) = s
OverrideFactor == "Coverage amount updated based on policy document"
ExclusionFactor == "Procedure found in exclusions"

\* C16: within one evaluation rejection is absorbing: once a rule has set the
\* decision to rejected, every later rule and chunk leaves it rejected with
\* amount 0; later steps may only append factors, and none of them is a
\* coverage-amount override.
C16_RejectionAbsorbing ==
    [][(IsSome(decision_result) /\ Val(decision_result).decision = "rejected") =>
          /\ Val(decision_result).amount = 0
          /\ Val(decision_result').decision = "rejected"
          /\ Val(decision_result').amount = 0
          /\ IsPrefix(Val(decision_result).factors, Val(decision_result').factors)
          /\ \A i \in (Len(Val(decision_result).factors) + 1)..Len(Val(decision_result').factors) :
                Val(decision_result').factors[i].kind # OverrideFactor]_vars

\* a rejected evaluation that has just scanned a chunk carrying a coverage
\* amount without leaving the loop
C16_Witness ==
    /\ op = "scan_chunk"
    /\ scan_pos >= 1
    /\ Val(decision_result).decision = "rejected"
    /\ IsSome(coverage_amount_of(Lower(relevant_chunks[scan_pos].chunk)))

\* C17: the age rule.  With the decision still approved after the duration
\* rule and an age present: above 75 the decision becomes rejected with amount
\* 0 and one age factor; above 60 and up to 75 the decision stays approved,
\* the amount is multiplied by 0.8 and one age-penalty factor is appended; up
\* to 60 nothing changes.  With the decision already rejected, or no age, the
\* rule changes nothing and appends no factor.
C17_AgeRule ==
    [][op' = "age_rule" =>
          LET st == Val(decision_result)
              after == Val(decision_result')
              age == Val(parsed_info).age
          IN  /\ (st.decision = "rejected" \/ IsNone(age)) => after = st
              /\ (st.decision = "approved" /\ IsSome(age) /\ Val(age) > 75) =>
                    /\ after.decision = "rejected"
                    /\ after.amount = 0
                    /\ Len(after.factors) = Len(st.factors) + 1
                    /\ IsPrefix(st.factors, after.factors)
                    /\ after.factors[Len(after.factors)].kind = "Age exceeds maximum coverage age"
              /\ (st.decision = "approved" /\ IsSome(age) /\ Val(age) > 60 /\ Val(age) <= 75) =>
                    /\ after.decision = "approved"
                    /\ 10 * after.amount = 8 * st.amount
                    /\ Len(after.factors) = Len(st.factors) + 1
                    /\ IsPrefix(st.factors, after.factors)
                    /\ after.factors[Len(after.factors)].kind = "Age penalty applied"
              /\ (st.decision = "approved" /\ IsSome(age) /\ Val(age) <= 60) => after = st]_vars

\* the age rule reached with age 76 after the duration rule has rejected
C17_Witness ==
    /\ op = "age_rule"
    /\ Val(parsed_info).age = Some(76)
    /\ Val(decision_result).decision = "rejected"
    /\ Len(Val(decision_result).factors) = 1
    /\ Val(decision_result).factors[1].kind = "Policy duration is less than minimum required"

CoveredProcedures == {S_knee, S_heart, S_surgery, S_cancer}
UncoveredProcedures == {S_dental, S_cosmetic}
ExpectedBaseAmount(procedure) ==
    CASE procedure = S_knee -> 75000
      [] procedure = S_heart -> 200000
      [] procedure = S_surgery -> 50000
      [] procedure = S_cancer -> 500000
ExpectedCategory(procedure) ==
    CASE procedure = S_knee -> "orthopedic"
      [] procedure = S_heart -> "cardiac"
      [] procedure = S_surgery -> "general"
      [] procedure = S_cancer -> "oncology"

\* C18: the procedure rule.  With the decision still approved and the
\* procedure in the table: a covered procedure sets the amount to exactly its
\* base amount (knee 75000, heart 200000, surgery 50000, cancer 500000),
\* whatever the age rule left, and records the category in one factor; an
\* uncovered one (dental, cosmetic) rejects with amount 0.  With the decision
\* already rejected, or the procedure absent or unknown, amount and factors
\* stay as they are.
C18_ProcedureRule ==
    [][op' = "procedure_rule" =>
          LET st == Val(decision_result)
              after == Val(decision_result')
              procedure == Val(parsed_info).procedure
          IN  /\ st.decision = "rejected" => after = st
              /\ (IsNone(procedure)
                    \/ Val(procedure) \notin CoveredProcedures \cup UncoveredProcedures)
                   => after = st
              /\ (st.decision = "approved" /\ IsSome(procedure)
                    /\ Val(procedure) \in CoveredProcedures) =>
                    /\ after.decision = "approved"
                    /\ after.amount = ExpectedBaseAmount(Val(procedure))
                    /\ Len(after.factors) = Len(st.factors) + 1
                    /\ IsPrefix(st.factors, after.factors)
                    /\ after.factors[Len(after.factors)].kind = "surgery is covered under category"
                    /\ after.factors[Len(after.factors)].category
                          = ExpectedCategory(Val(procedure))
              /\ (st.decision = "approved" /\ IsSome(procedure)
                    /\ Val(procedure) \in UncoveredProcedures) =>
                    /\ after.decision = "rejected"
                    /\ after.amount = 0
                    /\ Len(after.factors) = Len(st.factors) + 1
                    /\ IsPrefix(st.factors, after.factors)
                    /\ after.factors[Len(after.factors)].kind = "is not covered under policy"]_vars

\* knee at age 61: the base amount 75000 has replaced the penalised 40000
C18_Witness ==
    /\ op = "procedure_rule"
    /\ Val(parsed_info).procedure = Some(S_knee)
    /\ Val(parsed_info).age = Some(61)
    /\ Val(decision_result).decision = "approved"
    /\ Val(decision_result).amount = 75000
    /\ Len(Val(decision_result).factors) = 2
    /\ Val(decision_result).factors[1].kind = "Age penalty applied"

\* the chunk text names an exclusion and the procedure
ExclusionHit(chunk, procedure) ==
    /\ IsSome(procedure)
    /\ \/ Contains(Lower(chunk.chunk), S_exclusion)
       \/ Contains(Lower(chunk.chunk), S_not_covered)
    /\ Contains(Lower(chunk.chunk), Lower(Val(procedure)))

\* C19: exclusion, first hit wins.  Scanning the chunks in order, the first
\* chunk whose text contains "exclusion" or "not covered" and the procedure
\* sets rejected and amount 0, appends exactly one exclusion factor naming
\* that chunk's document and ends the scan: no later chunk is looked at or
\* adds a factor.  No other chunk ends the scan or adds an exclusion factor,
\* and without a procedure no chunk does.
C19_FirstExclusionWins ==
    [][/\ scan_pos' = scan_pos + 1 =>
            LET st == Val(decision_result)
                after == Val(decision_result')
                chunk == relevant_chunks[scan_pos']
                procedure == Val(parsed_info).procedure
            IN  /\ \A j \in 1..scan_pos : ~ExclusionHit(relevant_chunks[j], procedure)
                /\ ExclusionHit(chunk, procedure) =>
                      /\ op' = "break"
                      /\ after.decision = "rejected"
                      /\ after.amount = 0
                      /\ after.factors = Append(st.factors,
                                                [kind |-> ExclusionFactor,
                                                 document |-> chunk.document])
                /\ ~ExclusionHit(chunk, procedure) =>
                      /\ op' = "scan_chunk"
                      /\ \A i \in (Len(st.factors) + 1)..Len(after.factors) :
                            after.factors[i].kind # ExclusionFactor
       /\ op = "break" =>
            /\ scan_pos' = scan_pos
            /\ decision_result' = decision_result
            /\ op' \in {"break", "return"}]_vars

\* an evaluation returned after the first of two chunks that both exclude the
\* procedure, with the one exclusion factor of the first chunk
C19_Witness ==
    /\ op = "return"
    /\ scan_pos = 1
    /\ Len(relevant_chunks) = 2
    /\ ExclusionHit(relevant_chunks[1], Val(parsed_info).procedure)
    /\ ExclusionHit(relevant_chunks[2], Val(parsed_info).procedure)
    /\ relevant_chunks[1].document # relevant_chunks[2].document
    /\ Val(response).factors[Len(Val(response).factors)]
          = [kind |-> ExclusionFactor, document |-> relevant_chunks[1].document]

\* the coverage numbers re.search finds in the chunks, one per chunk at most
CoverageNumbers(chunks) ==
    {Val(coverage_amount_of(Lower(chunks[i].chunk))) :
        i \in {j \in 1..Len(chunks) : IsSome(coverage_amount_of(Lower(chunks[j].chunk)))}}
\* decision, amount and factors after the duration, age and procedure rules
AfterProcedureRule(pinfo) ==
    procedure_rule(age_rule(duration_rule(decision_start, pinfo), pinfo), pinfo)

TableKeyOrder == <<S_knee, S_heart, S_surgery, S_cancer, S_dental, S_cosmetic>>
Occurs(word, q) == Contains(Lower(q), word)
OccurringKeys(q) == {i \in 1..Len(TableKeyOrder) : Occurs(TableKeyOrder[i], q)}

\* C21: the procedure extracted is the first key of the table, in the order
\* knee, heart, surgery, cancer, dental, cosmetic, that occurs in the query
\* whatever its case; when no key occurs, a query with "operation",
\* "procedure" or "treatment" gives "surgery"; otherwise there is none.  So a
\* query with "surgery" and a later key (dental, cosmetic) gives surgery.
C21_FirstTableKeyWins ==
    op = "_parse_query_details" =>
        LET procedure == Val(parsed_info).procedure
        IN  /\ OccurringKeys(query) # {} =>
                  procedure = Some(TableKeyOrder[Min(OccurringKeys(query))])
            /\ (OccurringKeys(query) = {}
                  /\ \E term \in {S_operation, S_procedure, S_treatment} : Occurs(term, query))
                  => procedure = Some(S_surgery)
            /\ (OccurringKeys(query) = {}
                  /\ \A term \in {S_operation, S_procedure, S_treatment} : ~Occurs(term, query))
                  => procedure = None
            /\ (Occurs(S_surgery, query) /\ ~Occurs(S_knee, query) /\ ~Occurs(S_heart, query)
                  /\ (Occurs(S_dental, query) \/ Occurs(S_cosmetic, query)))
                  => procedure = Some(S_surgery)

\* "Dental surgery" parsed: the key surgery wins over the later key dental
C21_Witness ==
    /\ op = "_parse_query_details"
    /\ query = Word_Dental \o <<" ">> \o S_surgery
    /\ Val(parsed_info).procedure = Some(S_surgery)

\* words[a:b] of Python, for 0-based a <= b <= Len(words)
Slice(words, a, b) == SubSeq(words, a + 1, b)

\* C22: for a cleaned text of n words, chunking returns, for every k >= 0 with
\* 400 k < n and in increasing k, the chunk made of exactly the words 400 k up
\* to min(400 k + 500, n).  So every word lies in a chunk, no chunk has more
\* than 500 words, consecutive full chunks share exactly 100 words, and the
\* empty text gives no chunks.
C22_ChunkWindows ==
    op = "_create_semantic_chunks" =>
        \E words \in {Split(query)} :
        \E chunks \in {[c \in 1..Len(Val(response)) |-> Split(Val(response)[c])]} :
            LET n == Len(words)
                starts == {k \in 0..n : 400 * k < n}
            IN  /\ Len(chunks) = Cardinality(starts)
                /\ \A k \in starts :
                      /\ chunks[k + 1] = Slice(words, 400 * k,
                                               Min({400 * k + 500, n}))
                      /\ Val(response)[k + 1] = Join(chunks[k + 1])
                      /\ Len(chunks[k + 1]) <= 500
                /\ \A i \in 1..n : \E c \in 1..Len(chunks) :
                      /\ i - 400 * (c - 1) \in 1..Len(chunks[c])
                      /\ chunks[c][i - 400 * (c - 1)] = words[i]
                /\ \A c \in 1..(Len(chunks) - 1) :
                      (Len(chunks[c]) = 500 /\ Len(chunks[c + 1]) = 500) =>
                          /\ Slice(chunks[c], 400, 500)
                                = Slice(chunks[c + 1], 0, 500 - 400)
                          /\ chunks[c][400] # chunks[c + 1][1]
                /\ (n = 0 => Val(response) = <<>>)

\* a text of 901 words chunked into words 1-500, 401-900 and 801-901
C22_Witness ==
    /\ op = "_create_semantic_chunks"
    /\ Len(Split(query)) = 901
    /\ Len(Val(response)) = 3
    /\ Len(Split(Val(response)[2])) = 500
    /\ Split(Val(response)[3])[1] = IntToStr(801)

C24_ApprovedAtLeast40000OrRejectedZero ==
    op = "return" =>
        \/ Val(response).decision = "approved" /\ Val(response).amount >= 40000
        \/ Val(response).decision = "rejected" /\ Val(response).amount = 0

\* the least approved result: age 61, no procedure, nothing raised by a chunk
C24_Witness ==
    /\ op = "return"
    /\ Val(parsed_info).age = Some(61)
    /\ IsNone(Val(parsed_info).procedure)
    /\ Len(relevant_chunks) = 2
    /\ Val(response).decision = "approved"
    /\ Val(response).amount = 40000

===========================================================================
